---- MODULE Spec2Model ----
(***************************************************************************)
(* A model of the Asterisk language front end and runtime: the tokenizer   *)
(* (src/src/lexer.hpp), the precedence-climbing parser                     *)
(* (src/unnamed/part_002), the value model and the builtin library         *)
(* (src/src/parser/functions.hpp) and the tree-walking interpreter (the    *)
(* C++ part of src/README.md, lines 81-392).                               *)
(*                                                                         *)
(* Conventions.  Text is a sequence of one-character strings.  Sequences   *)
(* are 1-based, so an index i or pos of the model is the code's i+1 or     *)
(* pos+1.  A C++ exception is a result whose status is "error" (a          *)
(* std::runtime_error, with the kind of the message) or "return" (a        *)
(* ReturnException); every caller passes such a result on unless the code  *)
(* catches it.  A float is an exact rational n/d (d > 0, lowest terms);    *)
(* d = 0 stands for a result that is not a finite rational (inf, nan, an   *)
(* irrational power or root).                                              *)
(***************************************************************************)
EXTENDS Integers, Sequences, FiniteSets, TLC

VARIABLES
    line,            \* lexer: the source text (lexer.hpp:40)
    i,               \* lexer: the scan position (lexer.hpp:42)
    tokens,          \* lexer: the tokens produced so far (lexer.hpp:41)
    phase,           \* where the driver stands (part_000:38-50)
    program,         \* the result of Parser::parse_program
    variables,       \* Interpreter::variables (README.md:107)
    user_functions,  \* Interpreter::user_functions (README.md:108)
    out,             \* the lines written to std::cout
    status,          \* "running", "finished", "returned" or "error"
    error,           \* the kind of the std::runtime_error raised, or "none"
    statement,       \* the top-level statement executed last
    trace,           \* what the execution of statement did, in order (observation only)
    thrown,          \* the output and the events at the throw of a std::runtime_error
                     \* (observation only)
    steps            \* number of top-level statements executed

vars == <<line, i, tokens, phase, program, variables, user_functions, out,
          status, error, statement, trace, thrown, steps>>

(***************************************************************************)
(* Characters                                                              *)
(***************************************************************************)
Digits == {"0", "1", "2", "3", "4", "5", "6", "7", "8", "9"}

Letters == {"a", "b", "c", "d", "e", "f", "g", "h", "i", "j", "k", "l", "m",
            "n", "o", "p", "q", "r", "s", "t", "u", "v", "w", "x", "y", "z",
            "R", "O", "M"}

isspace(c) == c \in {" ", "\n", "\t"}

isdigit(c) == c \in Digits

isalpha(c) == c \in Letters

isalnum(c) == isalpha(c) \/ isdigit(c)

\* The characters of the strchr call of the operator/separator branch.
OperatorChars == {"+", "-", "=", "*", "/", "(", ")", "'", "{", "}", "[", "]",
                  ",", ";", ":", "^"}

(***************************************************************************)
(* Tokens                                                                  *)
(***************************************************************************)
Token(ttype, str) == [type |-> ttype, value |-> str]

\* The keyword kinds of enum TokenType, with the word of each.
KeywordWords ==
    "IF" :> <<"i", "f">>
    @@ "THEN" :> <<"t", "h", "e", "n">>
    @@ "RET" :> <<"r", "e", "t">>
    @@ "WHILE" :> <<"w", "h", "i", "l", "e">>
    @@ "FOR" :> <<"f", "o", "r">>
    @@ "ELSE" :> <<"e", "l", "s", "e">>
    @@ "CONTINUE" :> <<"c", "o", "n", "t", "i", "n", "u", "e">>
    @@ "BREAK" :> <<"b", "r", "e", "a", "k">>
    @@ "IN" :> <<"i", "n">>
    @@ "ROOM" :> <<"r", "o", "o", "m">>
    @@ "VAR" :> <<"v", "a", "r">>
    @@ "FUNC" :> <<"f", "u", "n", "c">>
    @@ "PRINT" :> <<"p", "r", "i", "n", "t">>
    @@ "ROUND" :> <<"r", "o", "u", "n", "d">>
    @@ "FLOOR" :> <<"f", "l", "o", "o", "r">>
    @@ "CEIL" :> <<"c", "e", "i", "l">>
    @@ "ABS" :> <<"a", "b", "s">>
    @@ "MIN" :> <<"m", "i", "n">>
    @@ "MAX" :> <<"m", "a", "x">>
    @@ "SQRT" :> <<"s", "q", "r", "t">>
    @@ "POW" :> <<"p", "o", "w">>

w_true == <<"t", "r", "u", "e">>

w_false == <<"f", "a", "l", "s", "e">>

w_ROOM == <<"_", "R", "O", "O", "M">>

\* The one-character tokens of the switch; the quote is in the strchr set
\* but has no case, so it pushes nothing.
OperatorTokens(c) ==
    CASE c = "+" -> <<Token("PLUS", <<c>>)>>
      [] c = "-" -> <<Token("MINUS", <<c>>)>>
      [] c = "=" -> <<Token("EQUALS", <<c>>)>>
      [] c = "*" -> <<Token("STAR", <<c>>)>>
      [] c = "/" -> <<Token("SLASH", <<c>>)>>
      [] c = "(" -> <<Token("OPEN_PAREN", <<c>>)>>
      [] c = ")" -> <<Token("CLOSE_PAREN", <<c>>)>>
      [] c = "[" -> <<Token("OPEN_BRACK", <<c>>)>>
      [] c = "]" -> <<Token("CLOSE_BRACK", <<c>>)>>
      [] c = "{" -> <<Token("OPEN_CURLY", <<c>>)>>
      [] c = "}" -> <<Token("CLOSE_CURLY", <<c>>)>>
      [] c = "," -> <<Token("COMMA", <<c>>)>>
      [] c = ";" -> <<Token("SEMICOLON", <<c>>)>>
      [] c = ":" -> <<Token("COLON", <<c>>)>>
      [] c = "^" -> <<Token("CARET", <<c>>)>>
      [] OTHER -> <<>>

\* The kind the word branch gives a word: the _ROOM suffix first, then the
\* else-if chain in its order.
WordType(word) ==
    IF Len(word) > 5 /\ SubSeq(word, Len(word) - 4, Len(word)) = w_ROOM
    THEN "ROOM_IDENTIFIER"
    ELSE IF word = KeywordWords["IF"] THEN "IF"
    ELSE IF word = KeywordWords["THEN"] THEN "THEN"
    ELSE IF word = KeywordWords["RET"] THEN "RET"
    ELSE IF word = KeywordWords["FOR"] THEN "FOR"
    ELSE IF word = KeywordWords["ELSE"] THEN "ELSE"
    ELSE IF word = KeywordWords["CONTINUE"] THEN "CONTINUE"
    ELSE IF word = KeywordWords["BREAK"] THEN "BREAK"
    ELSE IF word = KeywordWords["IN"] THEN "IN"
    ELSE IF word = KeywordWords["ROOM"] THEN "ROOM"
    ELSE IF word = KeywordWords["VAR"] THEN "VAR"
    ELSE IF word = KeywordWords["FUNC"] THEN "FUNC"
    ELSE IF word = w_true \/ word = w_false THEN "BOOL"
    ELSE IF word = KeywordWords["PRINT"] THEN "PRINT"
    ELSE IF word = KeywordWords["ROUND"] THEN "ROUND"
    ELSE IF word = KeywordWords["FLOOR"] THEN "FLOOR"
    ELSE IF word = KeywordWords["CEIL"] THEN "CEIL"
    ELSE IF word = KeywordWords["ABS"] THEN "ABS"
    ELSE IF word = KeywordWords["MIN"] THEN "MIN"
    ELSE IF word = KeywordWords["MAX"] THEN "MAX"
    ELSE IF word = KeywordWords["SQRT"] THEN "SQRT"
    ELSE IF word = KeywordWords["POW"] THEN "POW"
    ELSE "IDENTIFIER"

(***************************************************************************)
(* The lexer (lexer.hpp:40-141)                                            *)
(***************************************************************************)
RECURSIVE ScanQuoted(_, _, _)
\* while (i < line.size() && line[i] != q) ++i; if (i < line.size()) ++i;
ScanQuoted(ln, j, q) ==
    IF j > Len(ln) THEN j
    ELSE IF ln[j] = q THEN j + 1
    ELSE ScanQuoted(ln, j + 1, q)

RECURSIVE ScanNumber(_, _, _)
\* The digit loop: [j |-> end of the run, hasDot |-> a '.' was taken].
ScanNumber(ln, j, hasDot) ==
    IF j <= Len(ln) /\ (isdigit(ln[j]) \/ (~hasDot /\ ln[j] = "."))
    THEN ScanNumber(ln, j + 1, hasDot \/ ln[j] = ".")
    ELSE [j |-> j, hasDot |-> hasDot]

RECURSIVE ScanWord(_, _)
ScanWord(ln, j) ==
    IF j <= Len(ln) /\ (isalnum(ln[j]) \/ ln[j] = "_")
    THEN ScanWord(ln, j + 1)
    ELSE j

\* One iteration of the while loop of lexer(): the position and the token
\* list after it.
LexerIteration(ln, j, toks) ==
    LET c == ln[j] IN
    IF isspace(c) THEN [i |-> j + 1, tokens |-> toks]
    ELSE IF c \in OperatorChars
    THEN [i |-> j + 1, tokens |-> toks \o OperatorTokens(c)]
    ELSE IF c = "\""
    THEN LET e == ScanQuoted(ln, j + 1, "\"") IN
         [i |-> e, tokens |-> Append(toks, Token("STRING", SubSeq(ln, j, e - 1)))]
    ELSE IF c = "'"
    THEN LET e == ScanQuoted(ln, j + 1, "'") IN
         [i |-> e, tokens |-> Append(toks, Token("CHAR", SubSeq(ln, j, e - 1)))]
    ELSE IF isdigit(c)
    THEN LET n == ScanNumber(ln, j, FALSE)
             hasF == n.j <= Len(ln) /\ ln[n.j] = "f"
             e == IF hasF THEN n.j + 1 ELSE n.j
             isFloat == n.hasDot \/ hasF
         IN  [i |-> e,
              tokens |-> Append(toks, Token(IF isFloat THEN "FLOAT" ELSE "INT",
                                            SubSeq(ln, j, e - 1)))]
    ELSE IF isalpha(c) \/ c = "_"
    THEN LET e == ScanWord(ln, j)
             word == SubSeq(ln, j, e - 1)
         IN  [i |-> e, tokens |-> Append(toks, Token(WordType(word), word))]
    ELSE [i |-> j + 1, tokens |-> toks]

RECURSIVE LexerLoop(_, _, _)
LexerLoop(ln, j, toks) ==
    IF j > Len(ln) THEN toks
    ELSE LET r == LexerIteration(ln, j, toks) IN LexerLoop(ln, r.i, r.tokens)

\* std::vector<Token> lexer(std::string line)
lexer(ln) == LexerLoop(ln, 1, <<>>)

(***************************************************************************)
(* The value model (functions.hpp:14-79)                                   *)
(***************************************************************************)
Abs(n) == IF n < 0 THEN -n ELSE n

RECURSIVE GCD(_, _)
GCD(a, b) == IF b = 0 THEN a ELSE GCD(b, a % b)

\* Value(int), Value(float), Value(const std::string&), Value(bool),
\* Value(const ValueArray&): exactly one alternative of the variant.
IntV(n) == [t |-> "Int", int |-> n]

FloatV(n, d) ==
    IF d = 0 THEN [t |-> "Float", n |-> 0, d |-> 0]
    ELSE LET s == IF d < 0 THEN -1 ELSE 1
             g == GCD(Abs(n), Abs(d))
         IN  [t |-> "Float", n |-> (s * n) \div g, d |-> (s * d) \div g]

TextV(s) == [t |-> "Text", text |-> s]

BoolV(b) == [t |-> "Bool", bool |-> b]

ArrayV(elems) == [t |-> "Array", elements |-> elems]

\* std::is_arithmetic_v of the alternative held: int, float and bool.
is_arithmetic(val) == val.t \in {"Int", "Float", "Bool"}

\* The integer an int or bool alternative promotes to.
AsInt(val) == IF val.t = "Bool" THEN (IF val.bool THEN 1 ELSE 0) ELSE val.int

\* The float an arithmetic alternative converts to.
AsFloat(val) == IF val.t = "Float" THEN val ELSE FloatV(AsInt(val), 1)

\* val == 0 and val != 0 on an arithmetic alternative.
IsZero(val) == IF val.t = "Float" THEN val.d # 0 /\ val.n = 0 ELSE AsInt(val) = 0

\* C++ integer division truncates toward zero.
TruncDiv(a, b) ==
    IF (a >= 0) = (b > 0) THEN Abs(a) \div Abs(b) ELSE -(Abs(a) \div Abs(b))

RECURSIVE IntPow(_, _)
IntPow(b, e) == IF e = 0 THEN 1 ELSE b * IntPow(b, e - 1)

\* l + r, l - r, l * r, l / r after the usual arithmetic conversions: float
\* if either side is float, int otherwise (bool promotes to int).
Arith(op, l, r) ==
    IF l.t = "Float" \/ r.t = "Float"
    THEN LET a == AsFloat(l)
             b == AsFloat(r)
         IN  IF a.d = 0 \/ b.d = 0 THEN FloatV(0, 0)
             ELSE CASE op = "PLUS" -> FloatV(a.n * b.d + b.n * a.d, a.d * b.d)
                    [] op = "MINUS" -> FloatV(a.n * b.d - b.n * a.d, a.d * b.d)
                    [] op = "STAR" -> FloatV(a.n * b.n, a.d * b.d)
                    [] op = "SLASH" -> FloatV(a.n * b.d, a.d * b.n)
    ELSE CASE op = "PLUS" -> IntV(AsInt(l) + AsInt(r))
           [] op = "MINUS" -> IntV(AsInt(l) - AsInt(r))
           [] op = "STAR" -> IntV(AsInt(l) * AsInt(r))
           [] op = "SLASH" -> IntV(TruncDiv(AsInt(l), AsInt(r)))

\* static_cast<float>(std::pow(l, r)): exact for an integral exponent; a
\* non-integral power of a non-zero base is a non-zero float not tracked.
PowValue(l, r) ==
    LET b == AsFloat(l)
        e == AsFloat(r)
    IN  IF b.d = 0 \/ e.d = 0 THEN FloatV(0, 0)
        ELSE IF e.d = 1 /\ e.n >= 0 THEN FloatV(IntPow(b.n, e.n), IntPow(b.d, e.n))
        ELSE IF e.d = 1 /\ b.n # 0 THEN FloatV(IntPow(b.d, -e.n), IntPow(b.n, -e.n))
        ELSE IF b.n = 0 /\ e.n > 0 THEN FloatV(0, 1)
        ELSE FloatV(0, 0)

DigitChars == <<"0", "1", "2", "3", "4", "5", "6", "7", "8", "9">>

RECURSIVE NatToText(_)
NatToText(n) ==
    IF n < 10 THEN <<DigitChars[n + 1]>>
    ELSE Append(NatToText(n \div 10), DigitChars[(n % 10) + 1])

\* std::to_string(int)
IntToText(n) == IF n < 0 THEN <<"-">> \o NatToText(-n) ELSE NatToText(n)

RECURSIVE PadLeft(_, _)
PadLeft(s, width) == IF Len(s) >= width THEN s ELSE PadLeft(<<"0">> \o s, width)

FloatPrecision == 6

\* std::to_string(float): "%f", six digits after the point; whole and rest
\* are the integral part and the rounded fraction of |f| in units of 10^-6.
FloatDigits(whole, rest, scale) ==
    NatToText(whole + rest \div scale) \o <<".">>
    \o PadLeft(NatToText(rest % scale), FloatPrecision)

FloatToText(f) ==
    IF f.d = 0 THEN <<"?">>
    ELSE (IF f.n < 0 THEN <<"-">> ELSE <<>>)
         \o FloatDigits(Abs(f.n) \div f.d,
                        (2 * (Abs(f.n) % f.d) * IntPow(10, FloatPrecision) + f.d)
                            \div (2 * f.d),
                        IntPow(10, FloatPrecision))

RECURSIVE value_to_string(_)
RECURSIVE JoinValues(_, _)
\* The loop of the ValueArray case: elements from index k on, ", " between.
JoinValues(elems, k) ==
    IF k > Len(elems) THEN <<>>
    ELSE (IF k > 1 THEN <<",", " ">> ELSE <<>>)
         \o value_to_string(elems[k]) \o JoinValues(elems, k + 1)

value_to_string(val) ==
    CASE val.t = "Bool" -> IF val.bool THEN <<"t", "r", "u", "e">>
                           ELSE <<"f", "a", "l", "s", "e">>
      [] val.t = "Text" -> <<"\"">> \o val.text \o <<"\"">>
      [] val.t = "Array" -> <<"[">> \o JoinValues(val.elements, 1) \o <<"]">>
      [] val.t = "Int" -> IntToText(val.int)
      [] val.t = "Float" -> FloatToText(val)

(***************************************************************************)
(* AST nodes (part_001, statements.hpp; the room nodes as the interpreter  *)
(* reads them).  A null unique_ptr is NullNode.  The alternatives of a     *)
(* Value and the node kinds carry differently named fields, so that any    *)
(* two of them can be compared.                                            *)
(***************************************************************************)
NullNode == [k |-> "null"]

\* A literal node holds its value as the Value it converts to when it is
\* evaluated: an int, a float (given as a FloatV), a string, a bool.
IntLiteral(val) == [k |-> "IntLiteral", value |-> IntV(val)]

FloatLiteral(val) == [k |-> "FloatLiteral", value |-> val]

StringLiteral(val) == [k |-> "StringLiteral", value |-> TextV(val)]

BooleanLiteral(val) == [k |-> "BooleanLiteral", value |-> BoolV(val)]

Identifier(n) == [k |-> "Identifier", name |-> n]

BinaryExpression(l, op, r) ==
    [k |-> "BinaryExpression", left |-> l, operator_type |-> op, right |-> r]

UnaryExpression(op, expr) ==
    [k |-> "UnaryExpression", operator_type |-> op, operand |-> expr]

ParenthesizedExpression(expr) ==
    [k |-> "ParenthesizedExpression", expression |-> expr]

FunctionCall(n, args) == [k |-> "FunctionCall", function_name |-> n, arguments |-> args]

RoomLiteral(elems) == [k |-> "RoomLiteral", elements |-> elems]

RoomAccess(n, idx) == [k |-> "RoomAccess", room_name |-> n, index |-> idx]

ExpressionStatement(expr) == [k |-> "ExpressionStatement", expression |-> expr]

VariableDeclaration(n, init) ==
    [k |-> "VariableDeclaration", name |-> n, initializer |-> init]

AssignmentStatement(n, val) ==
    [k |-> "AssignmentStatement", variable_name |-> n, value |-> val]

ReturnStatement(val) == [k |-> "ReturnStatement", value |-> val]

FunctionDeclaration(n, params, func_body) ==
    [k |-> "FunctionDeclaration", name |-> n, parameters |-> params, body |-> func_body]

IfStatement(cond, then_stmt, else_stmt) ==
    [k |-> "IfStatement", condition |-> cond, then_statement |-> then_stmt,
     else_statement |-> else_stmt]

WhileStatement(cond, body_stmt) ==
    [k |-> "WhileStatement", condition |-> cond, body |-> body_stmt]

BlockStatement(stmts) == [k |-> "BlockStatement", statements |-> stmts]

RoomAssignmentStatement(n, idx, val) ==
    [k |-> "RoomAssignmentStatement", room_name |-> n, index |-> idx, value |-> val]

Program(stmts) == [k |-> "Program", statements |-> stmts]

(***************************************************************************)
(* Literal conversions used by parse_primary                               *)
(***************************************************************************)
DigitVal(c) == CHOOSE d \in 0..9 : DigitChars[d + 1] = c

RECURSIVE DigitRun(_, _, _, _)
\* The digits of s from j on: [j |-> first index after the run, v |-> acc
\* extended by them, n |-> how many].
DigitRun(s, j, acc, cnt) ==
    IF j <= Len(s) /\ isdigit(s[j])
    THEN DigitRun(s, j + 1, 10 * acc + DigitVal(s[j]), cnt + 1)
    ELSE [j |-> j, v |-> acc, n |-> cnt]

\* std::stoi on an INT token (a run of digits)
stoi(s) == DigitRun(s, 1, 0, 0).v

\* std::stof on a FLOAT token: digits, an optional point and digits; the
\* trailing f is left unread.
stof(s) ==
    LET ip == DigitRun(s, 1, 0, 0)
        fp == IF ip.j <= Len(s) /\ s[ip.j] = "."
              THEN DigitRun(s, ip.j + 1, ip.v, 0)
              ELSE [j |-> ip.j, v |-> ip.v, n |-> 0]
    IN  FloatV(fp.v, IntPow(10, fp.n))

(***************************************************************************)
(* The parser (part_002).  A parse function yields                         *)
(*   [ok |-> TRUE, node |-> the tree, pos |-> the position after it]  or    *)
(*   [ok |-> FALSE, what |-> the message of the std::runtime_error, pos].  *)
(***************************************************************************)
Parsed(n, p) == [ok |-> TRUE, node |-> n, pos |-> p]

ParseError(msg, p) == [ok |-> FALSE, what |-> msg, pos |-> p]

\* A current token past the end that parse_primary takes for a literal.
current_token_Literal(toks, pos) ==
    IF pos > Len(toks) THEN Token("INT", <<"0">>) ELSE toks[pos]

\* Past the end the current token is a SEMICOLON with empty text.
current_token(toks, pos) ==
    IF pos > Len(toks) THEN Token("SEMICOLON", <<>>) ELSE toks[pos]

peek_token(toks, pos) ==
    IF pos + 1 > Len(toks) THEN Token("SEMICOLON", <<>>) ELSE toks[pos + 1]

advance(toks, pos) == IF pos <= Len(toks) THEN pos + 1 ELSE pos

\* match and expect: the position after the token, or the error.
expect(toks, pos, type) ==
    IF current_token(toks, pos).type = type
    THEN Parsed(NullNode, advance(toks, pos))
    ELSE ParseError("Expected token type", pos)

\* Binding powers that leave `=` out of the operators of an expression.
get_binding_power_NoEquals(type) ==
    CASE type \in {"PLUS", "MINUS"} -> 2
      [] type \in {"STAR", "SLASH"} -> 3
      [] type = "CARET" -> 4
      [] OTHER -> 0

get_binding_power(type) ==
    CASE type = "EQUALS" -> 1
      [] type \in {"PLUS", "MINUS"} -> 2
      [] type \in {"STAR", "SLASH"} -> 3
      [] type = "CARET" -> 4
      [] OTHER -> 0

BuiltinTokens ==
    {"PRINT", "ROUND", "FLOOR", "CEIL", "ABS", "MIN", "MAX", "SQRT", "POW"}

\* How a parse function passes on the std::runtime_error of one it calls:
\* when r is an error the caller ends with it, otherwise goes on with F(r).
AndThen(r, F(_)) == IF ~r.ok THEN r ELSE F(r)

RECURSIVE parse_expression(_, _, _)
RECURSIVE ExpressionLoop(_, _, _, _)
RECURSIVE parse_primary(_, _)
RECURSIVE ParseArguments(_, _, _)

\* The right operand parsed with a minimum below the operator's own power.
RightMinPrecedence_Below(precedence) == precedence - 1

\* The minimum precedence handed to the parse of the right operand.
RightMinPrecedence(precedence) == precedence + 1

\* The while loop of parse_expression, with `left` built so far.
ExpressionLoop(toks, pos, left, min_precedence) ==
    IF pos > Len(toks) THEN Parsed(left, pos)
    ELSE IF get_binding_power(current_token(toks, pos).type) <= min_precedence
    THEN Parsed(left, pos)
    ELSE AndThen(parse_expression(toks, advance(toks, pos),
                     RightMinPrecedence(get_binding_power(current_token(toks, pos).type))),
                 LAMBDA right :
                     ExpressionLoop(toks, right.pos,
                                    BinaryExpression(left, current_token(toks, pos).type,
                                                     right.node),
                                    min_precedence))

parse_expression(toks, pos, min_precedence) ==
    AndThen(parse_primary(toks, pos),
            LAMBDA left : ExpressionLoop(toks, left.pos, left.node, min_precedence))

\* The do-while loop of an argument list: node is the list of arguments.
ParseArguments(toks, pos, args) ==
    AndThen(parse_expression(toks, pos, 0), LAMBDA a :
            IF current_token(toks, a.pos).type = "COMMA"
            THEN ParseArguments(toks, advance(toks, a.pos), Append(args, a.node))
            ELSE Parsed(Append(args, a.node), a.pos))

\* The argument list of a call, from the token after the opening parenthesis.
ArgumentList(toks, pos) ==
    IF current_token(toks, pos).type # "CLOSE_PAREN"
    THEN ParseArguments(toks, pos, <<>>)
    ELSE Parsed(<<>>, pos)

\* The argument list and the closing parenthesis of a call.
ParseCallTail(toks, pos, name) ==
    AndThen(ArgumentList(toks, pos), LAMBDA args :
    AndThen(expect(toks, args.pos, "CLOSE_PAREN"), LAMBDA c :
            Parsed(FunctionCall(name, args.node), c.pos)))

\* case STRING: the text without its quotes.
Unquoted(v) ==
    IF Len(v) >= 2 /\ v[1] = "\"" /\ v[Len(v)] = "\"" THEN SubSeq(v, 2, Len(v) - 1) ELSE v

\* The switch of parse_primary: tok is the current token, next the
\* position after it.
PrimarySwitch(toks, pos, tok, next) ==
    CASE tok.type = "INT" -> Parsed(IntLiteral(stoi(tok.value)), next)
      [] tok.type = "FLOAT" -> Parsed(FloatLiteral(stof(tok.value)), next)
      [] tok.type = "STRING" -> Parsed(StringLiteral(Unquoted(tok.value)), next)
      [] tok.type = "BOOL" -> Parsed(BooleanLiteral(tok.value = w_true), next)
      [] tok.type = "IDENTIFIER" ->
           IF current_token(toks, next).type = "OPEN_PAREN"
           THEN ParseCallTail(toks, advance(toks, next), tok.value)
           ELSE Parsed(Identifier(tok.value), next)
      [] tok.type = "OPEN_PAREN" ->
           AndThen(parse_expression(toks, next, 0), LAMBDA expr :
           AndThen(expect(toks, expr.pos, "CLOSE_PAREN"), LAMBDA c :
                   Parsed(ParenthesizedExpression(expr.node), c.pos)))
      [] tok.type \in {"MINUS", "PLUS"} ->
           AndThen(parse_expression(toks, next, get_binding_power(tok.type)),
                   LAMBDA operand :
                       Parsed(UnaryExpression(tok.type, operand.node), operand.pos))
      [] tok.type \in BuiltinTokens ->
           AndThen(expect(toks, next, "OPEN_PAREN"),
                   LAMBDA o : ParseCallTail(toks, o.pos, tok.value))
      [] OTHER -> ParseError("Unexpected token in primary expression", pos)

parse_primary(toks, pos) ==
    PrimarySwitch(toks, pos, current_token(toks, pos), advance(toks, pos))

RECURSIVE parse_statement(_, _)
RECURSIVE BlockLoop(_, _, _)
RECURSIVE ParseParameters(_, _, _)

\* `if (match(EQUALS)) initializer = parse_expression(0)`.
OptionalInitializer(toks, pos) ==
    IF current_token(toks, pos).type = "EQUALS"
    THEN parse_expression(toks, advance(toks, pos), 0)
    ELSE Parsed(NullNode, pos)

parse_variable_declaration(toks, pos) ==
    AndThen(expect(toks, pos, "VAR"), LAMBDA v :
            IF current_token(toks, v.pos).type # "IDENTIFIER"
            THEN ParseError("Expected identifier after 'var'", v.pos)
            ELSE AndThen(OptionalInitializer(toks, advance(toks, v.pos)), LAMBDA init :
                 AndThen(expect(toks, init.pos, "SEMICOLON"), LAMBDA e :
                         Parsed(VariableDeclaration(current_token(toks, v.pos).value,
                                                    init.node),
                                e.pos))))

\* `if (match(ELSE)) else_stmt = parse_statement()`.
OptionalElse(toks, pos) ==
    IF current_token(toks, pos).type = "ELSE"
    THEN parse_statement(toks, advance(toks, pos))
    ELSE Parsed(NullNode, pos)

parse_if_statement(toks, pos) ==
    AndThen(expect(toks, pos, "IF"), LAMBDA a :
    AndThen(expect(toks, a.pos, "OPEN_PAREN"), LAMBDA b :
    AndThen(parse_expression(toks, b.pos, 0), LAMBDA condition :
    AndThen(expect(toks, condition.pos, "CLOSE_PAREN"), LAMBDA c :
    AndThen(expect(toks, c.pos, "THEN"), LAMBDA d :
    AndThen(parse_statement(toks, d.pos), LAMBDA then_stmt :
    AndThen(OptionalElse(toks, then_stmt.pos), LAMBDA else_stmt :
            Parsed(IfStatement(condition.node, then_stmt.node, else_stmt.node),
                   else_stmt.pos))))))))

parse_while_statement(toks, pos) ==
    AndThen(expect(toks, pos, "WHILE"), LAMBDA a :
    AndThen(expect(toks, a.pos, "OPEN_PAREN"), LAMBDA b :
    AndThen(parse_expression(toks, b.pos, 0), LAMBDA condition :
    AndThen(expect(toks, condition.pos, "CLOSE_PAREN"), LAMBDA c :
    AndThen(parse_statement(toks, c.pos), LAMBDA body :
            Parsed(WhileStatement(condition.node, body.node), body.pos))))))

\* The do-while loop of a parameter list: node is the list of names.
ParseParameters(toks, pos, parameters) ==
    IF current_token(toks, pos).type # "IDENTIFIER"
    THEN ParseError("Expected parameter name", pos)
    ELSE IF current_token(toks, advance(toks, pos)).type = "COMMA"
    THEN ParseParameters(toks, advance(toks, advance(toks, pos)),
                         Append(parameters, current_token(toks, pos).value))
    ELSE Parsed(Append(parameters, current_token(toks, pos).value), advance(toks, pos))

\* The parameter list, from the token after the opening parenthesis.
ParameterList(toks, pos) ==
    IF current_token(toks, pos).type # "CLOSE_PAREN"
    THEN ParseParameters(toks, pos, <<>>)
    ELSE Parsed(<<>>, pos)

parse_function_declaration(toks, pos) ==
    AndThen(expect(toks, pos, "FUNC"), LAMBDA a :
            IF current_token(toks, a.pos).type # "IDENTIFIER"
            THEN ParseError("Expected function name after 'func'", a.pos)
            ELSE AndThen(expect(toks, advance(toks, a.pos), "OPEN_PAREN"), LAMBDA b :
                 AndThen(ParameterList(toks, b.pos), LAMBDA parameters :
                 AndThen(expect(toks, parameters.pos, "CLOSE_PAREN"), LAMBDA c :
                 AndThen(parse_statement(toks, c.pos), LAMBDA body :
                         Parsed(FunctionDeclaration(current_token(toks, a.pos).value,
                                                    parameters.node, body.node),
                                body.pos))))))

\* `if (current_token().type != SEMICOLON) value = parse_expression(0)`.
OptionalValue(toks, pos) ==
    IF current_token(toks, pos).type # "SEMICOLON"
    THEN parse_expression(toks, pos, 0)
    ELSE Parsed(NullNode, pos)

parse_return_statement(toks, pos) ==
    AndThen(expect(toks, pos, "RET"), LAMBDA a :
    AndThen(OptionalValue(toks, a.pos), LAMBDA value :
    AndThen(expect(toks, value.pos, "SEMICOLON"), LAMBDA e :
            Parsed(ReturnStatement(value.node), e.pos))))

\* The while loop of parse_block_statement: node is the list of statements.
BlockLoop(toks, pos, statements) ==
    IF current_token(toks, pos).type # "CLOSE_CURLY" /\ pos <= Len(toks)
    THEN AndThen(parse_statement(toks, pos),
                 LAMBDA s : BlockLoop(toks, s.pos, Append(statements, s.node)))
    ELSE Parsed(statements, pos)

parse_block_statement(toks, pos) ==
    AndThen(expect(toks, pos, "OPEN_CURLY"), LAMBDA a :
    AndThen(BlockLoop(toks, a.pos, <<>>), LAMBDA statements :
    AndThen(expect(toks, statements.pos, "CLOSE_CURLY"), LAMBDA c :
            Parsed(BlockStatement(statements.node), c.pos))))

parse_expression_statement(toks, pos) ==
    IF current_token(toks, pos).type = "IDENTIFIER"
       /\ peek_token(toks, pos).type = "EQUALS"
    THEN AndThen(parse_expression(toks, advance(toks, advance(toks, pos)), 0),
                 LAMBDA value :
         AndThen(expect(toks, value.pos, "SEMICOLON"), LAMBDA e :
                 Parsed(AssignmentStatement(current_token(toks, pos).value, value.node),
                        e.pos)))
    ELSE AndThen(parse_expression(toks, pos, 0), LAMBDA expr :
         AndThen(expect(toks, expr.pos, "SEMICOLON"), LAMBDA e :
                 Parsed(ExpressionStatement(expr.node), e.pos)))

\* The switch of parse_statement on the type of the current token.
StatementSwitch(toks, pos, type) ==
    CASE type = "VAR" -> parse_variable_declaration(toks, pos)
      [] type = "FUNC" -> parse_function_declaration(toks, pos)
      [] type = "IF" -> parse_if_statement(toks, pos)
      [] type = "WHILE" -> parse_while_statement(toks, pos)
      [] type = "RET" -> parse_return_statement(toks, pos)
      [] type = "OPEN_CURLY" -> parse_block_statement(toks, pos)
      [] OTHER -> parse_expression_statement(toks, pos)

parse_statement(toks, pos) == StatementSwitch(toks, pos, current_token(toks, pos).type)

RECURSIVE ProgramLoop(_, _, _)
\* The while loop of parse_program.
ProgramLoop(toks, pos, statements) ==
    IF pos > Len(toks) THEN Parsed(Program(statements), pos)
    ELSE IF current_token(toks, pos).type = "SEMICOLON"
    THEN ProgramLoop(toks, advance(toks, pos), statements)
    ELSE AndThen(parse_statement(toks, pos),
                 LAMBDA s : ProgramLoop(toks, s.pos, Append(statements, s.node)))

parse_program(toks) == ProgramLoop(toks, 1, <<>>)

(***************************************************************************)
(* The interpreter state threaded through evaluation.                      *)
(*   variables, user_functions : the two maps of class Interpreter         *)
(*   out     : the lines written to std::cout                              *)
(*   frames  : one entry per active call_user_function, innermost last:    *)
(*             its saved_variables and parameters, and (observation only)  *)
(*             the names its body has declared or assigned so far          *)
(*   status  : "ok", or the exception in flight: "error" (what = its kind) *)
(*             or "return" (value = the ReturnException's value)           *)
(*   trace   : the events of the execution, in order (observation only)    *)
(***************************************************************************)
EmptyMap == [n \in {} |-> 0]

Put(map, key, val) == [n \in DOMAIN map \cup {key} |-> IF n = key THEN val ELSE map[n]]

NewInterpreter ==
    [variables |-> EmptyMap, user_functions |-> EmptyMap, out |-> <<>>,
     frames |-> <<>>, status |-> "ok", what |-> "none", value |-> IntV(0),
     trace |-> <<>>, thrown |-> [is |-> FALSE, events |-> 0, out |-> <<>>]]

Log(S, event) == [S EXCEPT !.trace = Append(@, event)]

\* throw std::runtime_error(...)
Throw(S, kind) ==
    [S EXCEPT !.status = "error", !.what = kind,
              !.thrown = [is |-> TRUE, events |-> Len(S.trace), out |-> S.out]]

\* The result of an expression: the state after it and, when the state is
\* "ok", its value.
Result(S, v) == [st |-> S, val |-> v]

Raise(S, kind) == Result(Throw(S, kind), IntV(0))

\* Records that the running function body wrote `name` (observation only).
MarkWritten(S, name) ==
    IF S.frames = <<>> THEN S
    ELSE [S EXCEPT !.frames[Len(S.frames)].written = @ \cup {name}]

UserFunction(params, func_body) == [parameters |-> params, body |-> func_body]

\* Longest chain of nested user function calls the model follows; a deeper
\* call ends the run with "StackOverflow".
MaxDepth == 3

(***************************************************************************)
(* The builtin library (functions.hpp:83-290)                              *)
(***************************************************************************)
w_len == <<"l", "e", "n">>

w_frag == <<"f", "r", "a", "g">>

BuiltinNames ==
    {KeywordWords[kw] : kw \in BuiltinTokens} \cup {w_len, w_frag}

\* static_cast<int> of an arithmetic value: truncation toward zero.
ToInt(val) == IF val.t = "Float" /\ val.d # 0 THEN TruncDiv(val.n, val.d) ELSE
              IF val.t = "Float" THEN 0 ELSE AsInt(val)

FloorOf(f) == f.n \div f.d

CeilOf(f) == -((-f.n) \div f.d)

\* std::round: halves away from zero.
RoundOf(f) ==
    IF f.n >= 0 THEN (2 * f.n + f.d) \div (2 * f.d)
    ELSE -((2 * (-f.n) + f.d) \div (2 * f.d))

IsSquare(n) == \E r \in 0..n : r * r = n

Root(n) == CHOOSE r \in 0..n : r * r = n

\* static_cast<float>(std::sqrt(val)) for val >= 0: exact on a quotient of
\* squares, a non-zero float not tracked otherwise.
SqrtValue(f) ==
    IF f.d # 0 /\ IsSquare(f.n) /\ IsSquare(f.d) THEN FloatV(Root(f.n), Root(f.d))
    ELSE FloatV(0, 0)

FloatLess(a, b) == a.n * b.d < b.n * a.d

\* The index test of frag that accepts equal bounds.
FragIndicesValid_Equal(start, end, size) ==
    ~(start < 0 \/ end < 0 \/ start > end \/ end > size)

\* The negation of the condition under which frag throws on its indices.
FragIndicesValid(start, end, size) ==
    ~(start < 0 \/ end < 0 \/ start >= end \/ end > size)

\* builtin_functions["frag"]
frag(args, S) ==
    IF Len(args) # 3 THEN Raise(S, "ArityMismatch")
    ELSE IF args[1].t # "Array" THEN Raise(S, "InvalidOperandType")
    ELSE IF args[2].t # "Int" \/ args[3].t # "Int" THEN Raise(S, "InvalidOperandType")
    ELSE IF ~FragIndicesValid(args[2].int, args[3].int, Len(args[1].elements))
    THEN Raise(S, "InvalidIndices")
    ELSE Result(S, ArrayV(SubSeq(args[1].elements, args[2].int + 1, args[3].int)))

\* The result r of frag on args in state S, with the call recorded.
FragLogged(args, S, r) ==
    Result(Log(r.st, [e |-> "frag", args |-> args,
                      raised |-> r.st.status = "error", what |-> r.st.what,
                      result |-> r.val,
                      before |-> S.variables, after |-> r.st.variables]),
           r.val)

\* One builtin applied to its argument values: the state (print writes a
\* line) and the value, or the error thrown.
CallBuiltin(name, args, S) ==
    LET n == Len(args)
        a == IF n >= 1 THEN args[1] ELSE IntV(0)
        b == IF n >= 2 THEN args[2] ELSE IntV(0)
        c == IF n >= 3 THEN args[3] ELSE IntV(0)
        one == name \in {KeywordWords[kw] : kw \in {"ROUND", "FLOOR", "CEIL", "ABS", "SQRT"}}
    IN  CASE name = KeywordWords["PRINT"] ->
               IF n # 1 THEN Raise(S, "ArityMismatch")
               ELSE Result([S EXCEPT !.out = Append(@, value_to_string(a))], IntV(0))
          [] one /\ n # 1 -> Raise(S, "ArityMismatch")
          [] one /\ n = 1 /\ ~is_arithmetic(a) -> Raise(S, "InvalidOperandType")
          [] one /\ n = 1 /\ is_arithmetic(a) /\ name = KeywordWords["ROUND"] ->
               Result(S, IF a.t = "Float" THEN IntV(IF a.d = 0 THEN 0 ELSE RoundOf(a))
                         ELSE IntV(AsInt(a)))
          [] one /\ n = 1 /\ is_arithmetic(a) /\ name = KeywordWords["FLOOR"] ->
               Result(S, IF a.t = "Float" THEN IntV(IF a.d = 0 THEN 0 ELSE FloorOf(a))
                         ELSE IntV(AsInt(a)))
          [] one /\ n = 1 /\ is_arithmetic(a) /\ name = KeywordWords["CEIL"] ->
               Result(S, IF a.t = "Float" THEN IntV(IF a.d = 0 THEN 0 ELSE CeilOf(a))
                         ELSE IntV(AsInt(a)))
          [] one /\ n = 1 /\ is_arithmetic(a) /\ name = KeywordWords["ABS"] ->
               Result(S, IF a.t = "Float" THEN FloatV(Abs(a.n), a.d)
                         ELSE IntV(Abs(AsInt(a))))
          [] one /\ n = 1 /\ is_arithmetic(a) /\ name = KeywordWords["SQRT"] ->
               IF (a.t = "Float" /\ a.n < 0) \/ (a.t # "Float" /\ AsInt(a) < 0)
               THEN Raise(S, "DomainError")
               ELSE Result(S, SqrtValue(AsFloat(a)))
          [] name \in {KeywordWords["MIN"], KeywordWords["MAX"]} ->
               IF n # 2 THEN Raise(S, "ArityMismatch")
               ELSE IF ~is_arithmetic(a) \/ ~is_arithmetic(b)
               THEN Raise(S, "InvalidOperandType")
               ELSE LET x == AsFloat(a)
                        y == AsFloat(b)
                    IN  IF x.d = 0 \/ y.d = 0 THEN Result(S, FloatV(0, 0))
                        ELSE IF name = KeywordWords["MIN"]
                        THEN Result(S, IF FloatLess(y, x) THEN y ELSE x)
                        ELSE Result(S, IF FloatLess(x, y) THEN y ELSE x)
          [] name = KeywordWords["POW"] ->
               IF n # 2 THEN Raise(S, "ArityMismatch")
               ELSE IF ~is_arithmetic(a) \/ ~is_arithmetic(b)
               THEN Raise(S, "InvalidOperandType")
               ELSE Result(S, PowValue(a, b))
          [] name = w_len ->
               IF n # 1 THEN Raise(S, "ArityMismatch")
               ELSE IF a.t = "Array" THEN Result(S, IntV(Len(a.elements)))
               ELSE IF a.t = "Text" THEN Result(S, IntV(Len(a.text)))
               ELSE Raise(S, "InvalidOperandType")
          [] name = w_frag -> FragLogged(args, S, frag(args, S))

\* FunctionRegistry::call_function
call_function(name, args, S) ==
    IF name \in BuiltinNames THEN CallBuiltin(name, args, S)
    ELSE Raise(S, "UnknownFunction")

(***************************************************************************)
(* The interpreter (README.md:105-392)                                     *)
(***************************************************************************)
\* The truthiness coercion without its array branch.
is_true_NoArray(val) ==
    IF val.t = "Bool" THEN val.bool
    ELSE IF is_arithmetic(val) THEN ~IsZero(val)
    ELSE IF val.t = "Text" THEN val.text # <<>>
    ELSE FALSE

\* The truthiness lambda of the IfStatement branch.
is_true(val) ==
    IF val.t = "Bool" THEN val.bool
    ELSE IF is_arithmetic(val) THEN ~IsZero(val)
    ELSE IF val.t = "Text" THEN val.text # <<>>
    ELSE IF val.t = "Array" THEN val.elements # <<>>
    ELSE FALSE

\* Division that tests only an integer divisor for zero.
Divide_IntOnly(l, r, S) ==
    IF r.t # "Float" /\ IsZero(r) THEN Raise(S, "DivisionByZero")
    ELSE Result(S, Arith("SLASH", l, r))

\* The lambda of case SLASH on two arithmetic operands.
Divide(l, r, S) ==
    IF IsZero(r) THEN Raise(S, "DivisionByZero")
    ELSE Result(S, Arith("SLASH", l, r))

\* The arity test accepting surplus arguments.
ArityMatches_AtLeast(func, args) == Len(args) >= Len(func.parameters)

\* args.size() != func.parameters.size() does not hold
ArityMatches(func, args) == Len(args) = Len(func.parameters)

RECURSIVE BindParameters(_, _, _, _)
\* for (i...) variables[func.parameters[i]] = args[i];
BindParameters(map, params, args, k) ==
    IF k > Len(params) THEN map
    ELSE BindParameters(Put(map, params[k], args[k]), params, args, k + 1)

\* A call that starts its body in a fresh environment of the parameters.
EnterCall_Fresh(S, func, args) ==
    [S EXCEPT !.variables = BindParameters(EmptyMap, func.parameters, args, 1),
              !.frames = Append(@, [saved_variables |-> S.variables,
                                    parameters |-> {func.parameters[k] :
                                                    k \in 1..Len(func.parameters)},
                                    written |-> {}])]

\* auto saved_variables = variables; and the binding loop: the state in
\* which the body starts.
EnterCall(S, func, args) ==
    [S EXCEPT !.variables = BindParameters(S.variables, func.parameters, args, 1),
              !.frames = Append(@, [saved_variables |-> S.variables,
                                    parameters |-> {func.parameters[k] :
                                                    k \in 1..Len(func.parameters)},
                                    written |-> {}])]

\* A return that leaves the environment of the body in place.
LeaveCall_NoRestore(S, return_value) ==
    Result([S EXCEPT !.frames = SubSeq(@, 1, Len(@) - 1),
                     !.status = "ok",
                     !.value = IntV(0)],
           return_value)

\* variables = saved_variables; return return_value;  S is the state in
\* which the body ended, normally or by a caught ReturnException.
LeaveCall(S, return_value) ==
    Result([S EXCEPT !.variables = S.frames[Len(S.frames)].saved_variables,
                     !.frames = SubSeq(@, 1, Len(@) - 1),
                     !.status = "ok",
                     !.value = IntV(0)],
           return_value)

\* A declaration that, like map::emplace, keeps the value of a bound name.
Declare_KeepsOld(S, name, value) ==
    IF name \in DOMAIN S.variables THEN MarkWritten(S, name)
    ELSE MarkWritten([S EXCEPT !.variables = Put(@, name, value)], name)

\* variables[var_decl->name] = value;
Declare(S, name, value) == MarkWritten([S EXCEPT !.variables = Put(@, name, value)], name)

\* An assignment that leaves its target as the only binding.
Assign_Alone(S, name, value) ==
    MarkWritten([S EXCEPT !.variables = Put(EmptyMap, name, value)], name)

\* An assignment that requires its target to be bound.
Assign_RequiresBound(S, name, value) ==
    IF name \in DOMAIN S.variables
    THEN MarkWritten([S EXCEPT !.variables = Put(@, name, value)], name)
    ELSE Throw(S, "UndefinedVariable")

\* variables[assign_stmt->variable_name] = value;
Assign(S, name, value) == MarkWritten([S EXCEPT !.variables = Put(@, name, value)], name)

\* How a caller passes on an exception of a callee: r is the result of an
\* expression; when it raised, the caller ends with it, and otherwise goes
\* on with F(r).  Then yields an expression result, ThenDo a state.
Then(r, F(_)) == IF r.st.status # "ok" THEN r ELSE F(r)

ThenDo(r, F(_)) == IF r.st.status # "ok" THEN r.st ELSE F(r)

RECURSIVE evaluate_expression(_, _)
RECURSIVE execute_statement(_, _)
RECURSIVE EvaluateAll(_, _, _, _)
RECURSIVE ExecuteAll(_, _, _)

\* The loops that evaluate a list of expressions in order (the arguments of
\* a call, the elements of a room literal): val is the list of values.
EvaluateAll(exprs, k, S, acc) ==
    IF k > Len(exprs) THEN Result(S, acc)
    ELSE Then(evaluate_expression(exprs[k], S),
              LAMBDA r : EvaluateAll(exprs, k + 1, r.st, Append(acc, r.val)))

\* case SLASH, with what it did recorded.
DivideLogged(l, r, S, q) ==
    Result(Log(q.st, [e |-> "divide", left |-> l, right |-> r,
                      raised |-> q.st.status = "error", what |-> q.st.what,
                      result |-> q.val]),
           q.val)

\* The operand test of an arithmetic case as an event: what is "none" when
\* the operands were accepted (observation only).
ArithEvent(op, l, r, what) ==
    [e |-> "arith", op |-> op, left |-> l, right |-> r,
     raised |-> what # "none", what |-> what]

\* The switch of evaluate_binary_expression on the operand values.
BinaryOperation(op, l, r, S) ==
    CASE op \in {"PLUS", "MINUS", "STAR"} ->
           IF is_arithmetic(l) /\ is_arithmetic(r)
           THEN Result(Log(S, ArithEvent(op, l, r, "none")), Arith(op, l, r))
           ELSE Raise(Log(S, ArithEvent(op, l, r, "InvalidOperandType")),
                      "InvalidOperandType")
      [] op = "SLASH" ->
           IF is_arithmetic(l) /\ is_arithmetic(r)
           THEN DivideLogged(l, r, S, Divide(l, r, S))
           ELSE Raise(Log(S, ArithEvent(op, l, r, "InvalidOperandType")),
                      "InvalidOperandType")
      [] op = "CARET" ->
           IF is_arithmetic(l) /\ is_arithmetic(r) THEN Result(S, PowValue(l, r))
           ELSE Raise(S, "InvalidOperandType")
      [] op = "EQUALS" ->
           Raise(Log(S, [e |-> "equals", left |-> l, right |-> r]),
                 "AssignmentInExpression")
      [] OTHER -> Raise(S, "UnknownBinaryOperator")

evaluate_binary_expression(expr, S) ==
    Then(evaluate_expression(expr.left, S), LAMBDA left :
    Then(evaluate_expression(expr.right, left.st), LAMBDA right :
         BinaryOperation(expr.operator_type, left.val, right.val, right.st)))

\* The switch of evaluate_unary_expression on the operand value.
UnaryOperation(op, val, S) ==
    CASE op \in {"MINUS", "PLUS"} ->
           IF is_arithmetic(val) THEN Result(S, Arith(op, IntV(0), val))
           ELSE Raise(S, "InvalidOperandType")
      [] OTHER -> Raise(S, "UnknownUnaryOperator")

evaluate_unary_expression(expr, S) ==
    Then(evaluate_expression(expr.operand, S), LAMBDA operand :
         UnaryOperation(expr.operator_type, operand.val, operand.st))

\* The state in which the body starts, with the call recorded.
CallLogged(S, func, args, entered) ==
    Log(entered, [e |-> "call", depth |-> Len(entered.frames),
                  caller |-> S.variables, parameters |-> func.parameters,
                  args |-> args, variables |-> entered.variables])

\* The result of a call that returned, with the return recorded: S is the
\* state at the call, body the state in which the body ended.
ReturnLogged(S, body, left) ==
    Result(Log(left.st, [e |-> "return", depth |-> Len(body.frames),
                         via |-> IF body.status = "return" THEN "ret" ELSE "end",
                         before |-> S.variables, after |-> left.st.variables,
                         value |-> left.val]),
           left.val)

\* A call that does not catch the ReturnException of its body.
AfterBody_Uncaught(S, body) ==
    IF body.status # "ok" THEN Result(body, IntV(0))
    ELSE ReturnLogged(S, body, LeaveCall(body, IntV(0)))

\* The try block and what follows it: a std::runtime_error of the body
\* passes through; a ReturnException is caught and gives the return value.
AfterBody(S, body) ==
    IF body.status = "error" THEN Result(body, IntV(0))
    ELSE ReturnLogged(S, body,
             LeaveCall(body, IF body.status = "return" THEN body.value ELSE IntV(0)))

call_user_function(func, args, S) ==
    IF ~ArityMatches(func, args)
    THEN Raise(Log(S, [e |-> "arity", nargs |-> Len(args),
                       nparams |-> Len(func.parameters), depth |-> Len(S.frames),
                       variables |-> S.variables]),
               "ArityMismatch")
    ELSE IF Len(S.frames) >= MaxDepth THEN Raise(S, "StackOverflow")
    ELSE AfterBody(S, execute_statement(func.body,
                          CallLogged(S, func, args, EnterCall(S, func, args))))

\* A lookup that finds a name in the user table only when no builtin has it.
ResolvesToUser_UnlessBuiltin(name, S) ==
    name \in DOMAIN S.user_functions /\ name \notin BuiltinNames

\* user_functions.find(name) != user_functions.end()
ResolvesToUser(name, S) == name \in DOMAIN S.user_functions

evaluate_function_call(func_call, S) ==
    Then(EvaluateAll(func_call.arguments, 1, S, <<>>), LAMBDA args :
         IF ResolvesToUser(func_call.function_name, args.st)
         THEN call_user_function(
                  args.st.user_functions[func_call.function_name], args.val,
                  Log(args.st, [e |-> "resolve", name |-> func_call.function_name,
                                user |-> func_call.function_name
                                           \in DOMAIN args.st.user_functions,
                                builtin |-> func_call.function_name \in BuiltinNames,
                                to |-> "user_functions"]))
         ELSE call_function(
                  func_call.function_name, args.val,
                  Log(args.st, [e |-> "resolve", name |-> func_call.function_name,
                                user |-> func_call.function_name
                                           \in DOMAIN args.st.user_functions,
                                builtin |-> func_call.function_name \in BuiltinNames,
                                to |-> "function_registry"])))

\* What the running body could know of a name it reads (observation only).
ReadEvent(name, S) ==
    LET depth == Len(S.frames)
        found == name \in DOMAIN S.variables
        in_caller == depth > 0 /\ name \in DOMAIN S.frames[depth].saved_variables
    IN  [e |-> "read", name |-> name, found |-> found, depth |-> depth,
         in_caller |-> in_caller,
         is_parameter |-> depth > 0 /\ name \in S.frames[depth].parameters,
         written |-> depth > 0 /\ name \in S.frames[depth].written,
         value |-> IF found THEN S.variables[name] ELSE IntV(0),
         caller_value |-> IF in_caller THEN S.frames[depth].saved_variables[name]
                          ELSE IntV(0)]

\* The Identifier branch of evaluate_expression.
LookupVariable(name, S) ==
    IF name \notin DOMAIN S.variables
    THEN Raise(Log(S, ReadEvent(name, S)), "UndefinedVariable")
    ELSE Result(Log(S, ReadEvent(name, S)), S.variables[name])

\* What an element access or an element assignment on `name` did: S0 is
\* the state it started in, S the state it ends in, index_val the value of
\* the index expression once `indexed`, what the kind of the error thrown
\* or "none" (observation only).
RoomEvent(kind, name, S0, S, indexed, index_val, new_value, result, what) ==
    [e |-> kind, name |-> name,
     bound |-> name \in DOMAIN S0.variables,
     room |-> IF name \in DOMAIN S0.variables THEN S0.variables[name] ELSE IntV(0),
     indexed |-> indexed, index_value |-> index_val,
     new_value |-> new_value, result |-> result,
     raised |-> what # "none", what |-> what,
     before |-> S0.variables, after |-> S.variables]

\* The bounds check and the element read of the RoomAccess branch.
RoomElement(name, index_val, S0, S) ==
    IF ToInt(index_val) < 0 \/ ToInt(index_val) >= Len(S.variables[name].elements)
    THEN Raise(Log(S, RoomEvent("access", name, S0, S, TRUE, index_val, IntV(0),
                                IntV(0), "IndexOutOfBounds")),
               "IndexOutOfBounds")
    ELSE Result(Log(S, RoomEvent("access", name, S0, S, TRUE, index_val, IntV(0),
                                 S.variables[name].elements[ToInt(index_val) + 1],
                                 "none")),
                S.variables[name].elements[ToInt(index_val) + 1])

evaluate_room_access(expr, S) ==
    IF expr.room_name \notin DOMAIN S.variables
    THEN Raise(Log(S, RoomEvent("access", expr.room_name, S, S, FALSE, IntV(0),
                                IntV(0), IntV(0), "UndefinedVariable")),
               "UndefinedVariable")
    ELSE IF S.variables[expr.room_name].t # "Array"
    THEN Raise(Log(S, RoomEvent("access", expr.room_name, S, S, FALSE, IntV(0),
                                IntV(0), IntV(0), "NotAnArray")),
               "NotAnArray")
    ELSE Then(evaluate_expression(expr.index, S), LAMBDA index_val :
              IF ~is_arithmetic(index_val.val)
              THEN Raise(Log(index_val.st,
                             RoomEvent("access", expr.room_name, S, index_val.st, TRUE,
                                       index_val.val, IntV(0), IntV(0), "TypeMismatch")),
                         "TypeMismatch")
              ELSE RoomElement(expr.room_name, index_val.val, S, index_val.st))

evaluate_expression(expr, S) ==
    CASE expr.k = "IntLiteral" -> Result(S, expr.value)
      [] expr.k = "FloatLiteral" -> Result(S, expr.value)
      [] expr.k = "StringLiteral" -> Result(S, expr.value)
      [] expr.k = "BooleanLiteral" -> Result(S, expr.value)
      [] expr.k = "Identifier" -> LookupVariable(expr.name, S)
      [] expr.k = "BinaryExpression" -> evaluate_binary_expression(expr, S)
      [] expr.k = "UnaryExpression" -> evaluate_unary_expression(expr, S)
      [] expr.k = "ParenthesizedExpression" -> evaluate_expression(expr.expression, S)
      [] expr.k = "FunctionCall" -> evaluate_function_call(expr, S)
      [] expr.k = "RoomLiteral" ->
           Then(EvaluateAll(expr.elements, 1, S, <<>>), LAMBDA elements :
                Result(elements.st, ArrayV(elements.val)))
      [] expr.k = "RoomAccess" -> evaluate_room_access(expr, S)
      [] OTHER -> Raise(S, "UnknownExpressionType")

\* An optional expression: the value of a null one is Int 0 (Value x = 0).
EvaluateOptional(expr, S) ==
    IF expr # NullNode THEN evaluate_expression(expr, S) ELSE Result(S, IntV(0))

\* A block that goes on with its next statement after a std::runtime_error.
ExecuteAll_PastError(stmts, k, S) ==
    IF k > Len(stmts) THEN S
    ELSE IF S.status = "return" THEN S
    ELSE ExecuteAll(stmts, k + 1,
                    execute_statement(stmts[k], [S EXCEPT !.status = "ok"]))

\* The for loop of the BlockStatement branch.
ExecuteAll(stmts, k, S) ==
    IF k > Len(stmts) THEN S
    ELSE IF S.status # "ok" THEN S
    ELSE ExecuteAll(stmts, k + 1, execute_statement(stmts[k], S))

\* A store through storage shared by every variable holding the same room.
StoreValue_Aliased(S, name, index, new_value) ==
    [S EXCEPT !.variables =
        [n \in DOMAIN @ |->
            IF @[n] = @[name] THEN [@[n] EXCEPT !.elements[index + 1] = new_value]
            ELSE @[n]]]

\* room[index] = new_value in a state where the room is an array and the
\* index is within its bounds.
StoreValue(S, name, index, new_value) ==
    [S EXCEPT !.variables[name].elements[index + 1] = new_value]

\* The state T after the store, with the assignment recorded.
StoreLogged(name, index_val, new_value, S0, T) ==
    Log(T, RoomEvent("store", name, S0, T, TRUE, index_val, new_value, IntV(0), "none"))

\* The checks on the room and the store of the RoomAssignmentStatement
\* branch, once index and value are evaluated.
StoreElement(name, index_val, new_value, S0, S) ==
    IF S.variables[name].t # "Array"
    THEN Throw(Log(S, RoomEvent("store", name, S0, S, TRUE, index_val, new_value,
                                IntV(0), "NotAnArray")),
               "NotAnArray")
    ELSE IF ToInt(index_val) < 0 \/ ToInt(index_val) >= Len(S.variables[name].elements)
    THEN Throw(Log(S, RoomEvent("store", name, S0, S, TRUE, index_val, new_value,
                                IntV(0), "IndexOutOfBounds")),
               "IndexOutOfBounds")
    ELSE StoreLogged(name, index_val, new_value, S0,
                     MarkWritten(StoreValue(S, name, ToInt(index_val), new_value), name))

execute_room_assignment(stmt, S) ==
    IF stmt.room_name \notin DOMAIN S.variables
    THEN Throw(Log(S, RoomEvent("store", stmt.room_name, S, S, FALSE, IntV(0), IntV(0),
                                IntV(0), "UndefinedVariable")),
               "UndefinedVariable")
    ELSE ThenDo(evaluate_expression(stmt.index, S), LAMBDA index_val :
         IF ~is_arithmetic(index_val.val)
         THEN Throw(Log(index_val.st,
                        RoomEvent("store", stmt.room_name, S, index_val.st, TRUE,
                                  index_val.val, IntV(0), IntV(0), "TypeMismatch")),
                    "TypeMismatch")
         ELSE ThenDo(evaluate_expression(stmt.value, index_val.st), LAMBDA new_value :
                     StoreElement(stmt.room_name, index_val.val, new_value.val,
                                  S, new_value.st)))

\* The branch the IfStatement takes on a condition value.
BranchTaken(stmt, condition) ==
    IF is_true(condition) THEN "then"
    ELSE IF stmt.else_statement # NullNode THEN "else"
    ELSE "none"

IfLogged(stmt, condition, S) ==
    Log(S, [e |-> "if", condition |-> condition,
            has_else |-> stmt.else_statement # NullNode,
            branch |-> BranchTaken(stmt, condition)])

execute_if_statement(stmt, S) ==
    ThenDo(evaluate_expression(stmt.condition, S), LAMBDA condition :
           CASE BranchTaken(stmt, condition.val) = "then" ->
                  execute_statement(stmt.then_statement,
                                    IfLogged(stmt, condition.val, condition.st))
             [] BranchTaken(stmt, condition.val) = "else" ->
                  execute_statement(stmt.else_statement,
                                    IfLogged(stmt, condition.val, condition.st))
             [] OTHER -> IfLogged(stmt, condition.val, condition.st))

\* The AssignmentStatement branch after the value is evaluated in state S,
\* with what it did recorded: T is the state after the store.
AssignLogged(name, value, S, T) ==
    Log(T, [e |-> "assign", name |-> name, depth |-> Len(S.frames),
            bound_before |-> name \in DOMAIN S.variables,
            bound_after |-> name \in DOMAIN T.variables,
            raised |-> T.status = "error",
            value |-> value,
            stored |-> IF name \in DOMAIN T.variables THEN T.variables[name]
                       ELSE IntV(0),
            others_kept |-> \A n \in (DOMAIN S.variables \cup DOMAIN T.variables) \ {name} :
                               /\ n \in DOMAIN S.variables
                               /\ n \in DOMAIN T.variables
                               /\ T.variables[n] = S.variables[n]])

\* A declaration that replaces the function a name already has.
DeclareFunction_Replace(S, stmt) ==
    [S EXCEPT !.user_functions =
                  Put(@, stmt.name, UserFunction(stmt.parameters, stmt.body))]

\* A declaration that registers a function only outside of function bodies.
DeclareFunction_TopLevel(S, stmt) ==
    IF stmt.name \in DOMAIN S.user_functions \/ Len(S.frames) > 0 THEN S
    ELSE [S EXCEPT !.user_functions =
                       Put(@, stmt.name, UserFunction(stmt.parameters, stmt.body))]

\* user_functions.emplace(name, UserFunction{parameters, body}): emplace
\* inserts nothing when the key is present.
DeclareFunction(S, stmt) ==
    IF stmt.name \in DOMAIN S.user_functions THEN S
    ELSE [S EXCEPT !.user_functions =
                       Put(@, stmt.name, UserFunction(stmt.parameters, stmt.body))]

StatementLogged(stmt, S) ==
    Log(S, [e |-> "statement", k |-> stmt.k, depth |-> Len(S.frames),
            name |-> IF "name" \in DOMAIN stmt THEN stmt.name ELSE <<>>])

\* The branches of execute_statement; S has the statement recorded.
ExecuteBranch(stmt, S) ==
    CASE stmt.k = "VariableDeclaration" ->
           ThenDo(EvaluateOptional(stmt.initializer, S), LAMBDA value :
                  Log(Declare(value.st, stmt.name, value.val),
                      [e |-> "declare", name |-> stmt.name,
                       has_init |-> stmt.initializer # NullNode,
                       value |-> value.val,
                       before |-> value.st.variables,
                       after |-> Declare(value.st, stmt.name, value.val).variables]))
      [] stmt.k = "FunctionDeclaration" -> DeclareFunction(S, stmt)
      [] stmt.k = "AssignmentStatement" ->
           ThenDo(evaluate_expression(stmt.value, S), LAMBDA value :
                  AssignLogged(stmt.variable_name, value.val, value.st,
                               Assign(value.st, stmt.variable_name, value.val)))
      [] stmt.k = "ExpressionStatement" -> evaluate_expression(stmt.expression, S).st
      [] stmt.k = "IfStatement" -> execute_if_statement(stmt, S)
      [] stmt.k = "BlockStatement" -> ExecuteAll(stmt.statements, 1, S)
      [] stmt.k = "ReturnStatement" ->
           ThenDo(EvaluateOptional(stmt.value, S), LAMBDA return_value :
                  [Log(return_value.st,
                       [e |-> "ret", depth |-> Len(return_value.st.frames),
                        has_value |-> stmt.value # NullNode,
                        value |-> return_value.val])
                     EXCEPT !.status = "return", !.value = return_value.val])
      [] stmt.k = "RoomAssignmentStatement" -> execute_room_assignment(stmt, S)
      [] OTHER -> Throw(S, "UnknownStatementType")

execute_statement(stmt, S) == ExecuteBranch(stmt, StatementLogged(stmt, S))

\* "Program exited with return value: "
Announcement ==
    <<"P", "r", "o", "g", "r", "a", "m", " ", "e", "x",
      "i", "t", "e", "d", " ", "w", "i", "t", "h", " ",
      "r", "e", "t", "u", "r", "n", " ", "v", "a", "l",
      "u", "e", ":", " ">>

\* A catch clause that writes the announcement line and lets the loop go on.
CatchReturn_Resumes(T) ==
    IF T.status = "return"
    THEN [T EXCEPT !.out = Append(@, Announcement \o value_to_string(T.value)),
                   !.status = "ok"]
    ELSE T

\* One iteration of the loop of execute_program, with its catch clause: a
\* ReturnException that reaches the top level writes the announcement line
\* and ends the run ("returned"); a std::runtime_error leaves the function
\* ("error") and main reports it on std::cerr.
CatchReturn(T) ==
    IF T.status = "return"
    THEN [T EXCEPT !.out = Append(@, Announcement \o value_to_string(T.value)),
                   !.status = "returned"]
    ELSE T

ExecuteTopLevel(stmt, S) == CatchReturn(execute_statement(stmt, S))

RECURSIVE ProgramSteps(_, _, _)
ProgramSteps(stmts, k, S) ==
    IF S.status # "ok" THEN S
    ELSE IF k > Len(stmts) THEN [S EXCEPT !.status = "finished"]
    ELSE ProgramSteps(stmts, k + 1, ExecuteTopLevel(stmts[k], S))

\* Interpreter::execute_program on a fresh Interpreter
execute_program(prog) == ProgramSteps(prog.statements, 1, NewInterpreter)

(***************************************************************************)
(* Specification Spec: the interpreter run on every program made of at     *)
(* most MaxSteps top-level statements of StatementPool.  A step executes   *)
(* the next top-level statement of the program, whatever it is.            *)
(***************************************************************************)
MaxSteps == 3

nx == <<"x">>

ny == <<"y">>

nz == <<"z">>

nf == <<"f">>

ng == <<"g">>

nh == <<"h">>

Num(n) == IntLiteral(n)

Var(n) == Identifier(n)

Call(n, args) == FunctionCall(n, args)

PrintOf(expr) == ExpressionStatement(FunctionCall(KeywordWords["PRINT"], <<expr>>))

\* Condition expressions of every value kind, zero and non-zero, empty and
\* non-empty.
Conditions ==
    {BooleanLiteral(TRUE), BooleanLiteral(FALSE), Num(0), Num(2),
     FloatLiteral(FloatV(0, 1)), FloatLiteral(FloatV(5, 2)),
     StringLiteral(<<>>), StringLiteral(<<"a">>),
     RoomLiteral(<<>>), RoomLiteral(<<Num(0)>>)}

IfStatements ==
    {IfStatement(c, PrintOf(Num(1)), PrintOf(Num(0))) : c \in Conditions}
    \cup {IfStatement(c, PrintOf(Num(1)), NullNode) :
            c \in {StringLiteral(<<>>), RoomLiteral(<<Num(0)>>), Var(nx)}}

Declarations ==
    {VariableDeclaration(nx, NullNode),
     VariableDeclaration(nx, Num(5)),
     VariableDeclaration(ny, FloatLiteral(FloatV(0, 1))),
     AssignmentStatement(nx, BinaryExpression(Var(nx), "PLUS", Num(1))),
     AssignmentStatement(ny, Num(2))}

\* func f(x) { x = 7; var z = 1; ret x; }
\* func g() { z = y; ret z; }
\* func h(x) { if (x) then ret h(x - 1) + 1; x = 5; y = 3; }
Functions ==
    {FunctionDeclaration(nf, <<nx>>,
        BlockStatement(<<AssignmentStatement(nx, Num(7)),
                         VariableDeclaration(nz, Num(1)),
                         ReturnStatement(Var(nx))>>)),
     FunctionDeclaration(ng, <<>>,
        BlockStatement(<<AssignmentStatement(nz, Var(ny)),
                         ReturnStatement(Var(nz))>>)),
     FunctionDeclaration(nh, <<nx>>,
        BlockStatement(<<IfStatement(Var(nx),
                            ReturnStatement(
                                BinaryExpression(
                                    Call(nh, <<BinaryExpression(Var(nx), "MINUS", Num(1))>>),
                                    "PLUS", Num(1))),
                            NullNode),
                         AssignmentStatement(nx, Num(5)),
                         AssignmentStatement(ny, Num(3))>>))}

Calls ==
    {PrintOf(Call(nf, <<Num(1)>>)),
     PrintOf(Call(ng, <<>>)),
     AssignmentStatement(nx, Call(nh, <<Num(1)>>)),
     PrintOf(Call(nf, <<>>)),
     PrintOf(Call(ng, <<Call(nf, <<Num(1)>>)>>)),
     PrintOf(Call(nh, <<Num(1), Num(2)>>))}

nk == <<"k">>

nm == <<"m">>

\* func f() ret 9;  a second declaration of the name f.
Redeclaration == FunctionDeclaration(nf, <<>>, ReturnStatement(Num(9)))

\* func m() ret 4;
Inner == FunctionDeclaration(nm, <<>>, ReturnStatement(Num(4)))

\* func k() { func m() ret 4; ret m(); }
Outer ==
    FunctionDeclaration(nk, <<>>, BlockStatement(<<Inner, ReturnStatement(Call(nm, <<>>))>>))

\* print(k() + m());  print(m());
NestedDeclarations ==
    {Outer,
     PrintOf(BinaryExpression(Call(nk, <<>>), "PLUS", Call(nm, <<>>))),
     PrintOf(Call(nm, <<>>))}

\* func len(x) ret 7;  print(len("ab"));
Shadowing ==
    {FunctionDeclaration(w_len, <<nx>>, ReturnStatement(Num(7))),
     PrintOf(Call(w_len, <<StringLiteral(<<"a", "b">>)>>))}

\* ret;  ret 7;  ret x;  { ret 2.5; print(1); }  if (true) then ret "a";
\* ret f(1);
Returns ==
    {ReturnStatement(NullNode),
     ReturnStatement(Num(7)),
     ReturnStatement(Var(nx)),
     BlockStatement(<<ReturnStatement(FloatLiteral(FloatV(5, 2))), PrintOf(Num(1))>>),
     IfStatement(BooleanLiteral(TRUE), ReturnStatement(StringLiteral(<<"a">>)),
                 NullNode),
     ReturnStatement(Call(nf, <<Num(1)>>))}

Divisions ==
    {PrintOf(BinaryExpression(Num(6), "SLASH", Num(4))),
     PrintOf(BinaryExpression(Num(5), "SLASH", Num(0))),
     BlockStatement(<<VariableDeclaration(nz,
                         BinaryExpression(FloatLiteral(FloatV(5, 1)), "SLASH",
                                          FloatLiteral(FloatV(0, 1)))),
                      PrintOf(Num(1))>>),
     PrintOf(BinaryExpression(Var(nx), "SLASH", Var(ny)))}

Loops ==
    {WhileStatement(Num(0), BlockStatement(<<>>)),
     WhileStatement(Var(nx), AssignmentStatement(nx, Num(0)))}

\* print(l op r) for operands of every value kind.
Arithmetic ==
    {PrintOf(BinaryExpression(Num(2), "STAR", Num(3))),
     PrintOf(BinaryExpression(FloatLiteral(FloatV(3, 2)), "PLUS", Num(2))),
     PrintOf(BinaryExpression(BooleanLiteral(TRUE), "PLUS", Num(1))),
     PrintOf(BinaryExpression(Num(4), "MINUS", BooleanLiteral(TRUE))),
     PrintOf(BinaryExpression(BooleanLiteral(TRUE), "SLASH", Num(2))),
     PrintOf(BinaryExpression(StringLiteral(<<"a">>), "STAR", Num(2))),
     PrintOf(BinaryExpression(Num(2), "SLASH", StringLiteral(<<"a">>))),
     PrintOf(BinaryExpression(RoomLiteral(<<Num(1)>>), "MINUS", Num(1))),
     PrintOf(BinaryExpression(Num(1), "PLUS", RoomLiteral(<<>>)))}

StatementPool == Declarations \cup Functions \cup Calls \cup Divisions
                 \cup IfStatements \cup Loops \cup Arithmetic \cup Shadowing
                 \cup Returns \cup {Redeclaration} \cup NestedDeclarations

\* The Interpreter object as the state variables hold it between two
\* top-level statements.
Current ==
    [variables |-> variables, user_functions |-> user_functions, out |-> out,
     frames |-> <<>>, status |-> "ok", what |-> "none", value |-> IntV(0),
     trace |-> <<>>, thrown |-> NewInterpreter.thrown]

LexerIdle == line = <<>> /\ i = 1 /\ tokens = <<>> /\ program = NullNode

Init ==
    /\ LexerIdle
    /\ phase = "execute"
    /\ variables = NewInterpreter.variables
    /\ user_functions = NewInterpreter.user_functions
    /\ out = NewInterpreter.out
    /\ status = "running"
    /\ error = "none"
    /\ statement = NullNode
    /\ trace = <<>>
    /\ thrown = NewInterpreter.thrown
    /\ steps = 0

\* The Interpreter object T after a top-level statement, as the next state.
Executed(stmt, T) ==
    /\ statement' = stmt
    /\ variables' = T.variables
    /\ user_functions' = T.user_functions
    /\ out' = T.out
    /\ status' = IF T.status = "ok" THEN "running" ELSE T.status
    /\ error' = T.what
    /\ trace' = T.trace
    /\ thrown' = T.thrown

\* The body of the for loop of execute_program, for the next statement.
ExecuteStatement ==
    /\ phase = "execute"
    /\ status = "running"
    /\ steps < MaxSteps
    /\ \E stmt \in StatementPool : Executed(stmt, ExecuteTopLevel(stmt, Current))
    /\ steps' = steps + 1
    /\ UNCHANGED <<line, i, tokens, phase, program>>

\* The for loop of execute_program ends: the program has no more statements.
EndOfProgram ==
    /\ phase = "execute"
    /\ status = "running"
    /\ status' = "finished"
    /\ UNCHANGED <<line, i, tokens, phase, program, variables, user_functions, out,
                   error, statement, trace, thrown, steps>>

Next == ExecuteStatement \/ EndOfProgram

Spec == Init /\ [][Next]_vars

(***************************************************************************)
(* The interpreter on programs that use ROOMs (arrays): element access,    *)
(* element assignment, copies, and the builtins frag and len.              *)
(***************************************************************************)
MaxRoomSteps == 3

na == <<"a">>

nb == <<"b">>

nc == <<"c">>

nn == <<"n">>

np == <<"p">>

ns == <<"s">>

Neg(expr) == UnaryExpression("MINUS", expr)

\* Index expressions: -1, 0, 1, 2, 1.5, -0.5, true, "x".
Indices ==
    {Neg(Num(1)), Num(0), Num(1), Num(2), FloatLiteral(FloatV(3, 2)),
     Neg(FloatLiteral(FloatV(1, 2))), BooleanLiteral(TRUE), StringLiteral(<<"x">>)}

\* var a = [1, 2]; var b = a; b = a; var n = 5;
RoomDeclarations ==
    {VariableDeclaration(na, RoomLiteral(<<Num(1), Num(2)>>)),
     VariableDeclaration(nb, Var(na)),
     AssignmentStatement(nb, Var(na)),
     VariableDeclaration(nn, Num(5))}

\* a[i] = 9; b[0] = 8; n[0] = 1; c[0] = 1;
RoomAssignments ==
    {RoomAssignmentStatement(na, idx, Num(9)) : idx \in Indices}
    \cup {RoomAssignmentStatement(nb, Num(0), Num(8)),
          RoomAssignmentStatement(nn, Num(0), Num(1)),
          RoomAssignmentStatement(nc, Num(0), Num(1))}

\* print(a[i]); print(b[0]); print(n[0]); print(c[0]);
RoomAccesses ==
    {PrintOf(RoomAccess(na, idx)) : idx \in Indices}
    \cup {PrintOf(RoomAccess(nb, Num(0))),
          PrintOf(RoomAccess(nn, Num(0))),
          PrintOf(RoomAccess(nc, Num(0)))}

\* func s(p) { p[0] = 7; print(a[0]); ret p; }   b = s(a);   print(s(a));
RoomFunctions ==
    {FunctionDeclaration(ns, <<np>>,
        BlockStatement(<<RoomAssignmentStatement(np, Num(0), Num(7)),
                         PrintOf(RoomAccess(na, Num(0))),
                         ReturnStatement(Var(np))>>)),
     AssignmentStatement(nb, Call(ns, <<Var(na)>>)),
     PrintOf(Call(ns, <<Var(na)>>))}

FragBounds == {Neg(Num(1)), Num(0), Num(1), Num(2), Num(3)}

\* print(frag(a, start, end)) and calls with a non-Int bound, a non-array
\* or a missing argument.
FragCalls ==
    {PrintOf(Call(w_frag, <<Var(na), start, end>>)) :
        start \in FragBounds, end \in FragBounds}
    \cup {PrintOf(Call(w_frag, <<Var(na), FloatLiteral(FloatV(0, 1)), Num(1)>>)),
          PrintOf(Call(w_frag, <<Var(na), Num(0), BooleanLiteral(TRUE)>>)),
          PrintOf(Call(w_frag, <<Var(nn), Num(0), Num(1)>>)),
          PrintOf(Call(w_frag, <<Var(na), Num(0)>>)),
          PrintOf(Call(w_len, <<Var(na)>>))}

RoomPool == RoomDeclarations \cup RoomAssignments \cup RoomAccesses
            \cup RoomFunctions \cup FragCalls

\* The body of the for loop of execute_program, for the next statement of
\* a program over RoomPool.
ExecuteRoomStatement ==
    /\ phase = "execute"
    /\ status = "running"
    /\ steps < MaxRoomSteps
    /\ \E stmt \in RoomPool : Executed(stmt, ExecuteTopLevel(stmt, Current))
    /\ steps' = steps + 1
    /\ UNCHANGED <<line, i, tokens, phase, program>>

NextRoom == ExecuteRoomStatement \/ EndOfProgram

SpecRoom == Init /\ [][NextRoom]_vars

(***************************************************************************)
(* The lexer alone, one iteration of its while loop per step.              *)
(***************************************************************************)
\* The texts given to lexer(): every keyword of the README standing alone,
\* and texts with the other kinds of token.
LexInputs ==
    {KeywordWords[k] : k \in DOMAIN KeywordWords}
    \cup {<<"w", "h", "i", "l", "e", " ", "(", "x", ")", " ", "y", ";">>,
          <<"v", "a", "r", " ", "x", "_", "R", "O", "O", "M", " ", "=", " ", "1",
           ".", "5", "f", ";">>,
          <<"'", "a", "'", " ", "\"", "h", "i", "\"">>,
          <<"w", "h", "i", "l", "e", "s", " ", "i", "f", "2", " ", "t", "r", "u",
           "e">>,
          <<"r", "e", "t", " ", "1", "0", ";">>,
          <<"x", " ", "=", " ", "[", "1", ",", " ", "2", "]", ":", " ", "#">>,
          <<"'", "a", "'">>,
          <<"x", " ", "=", " ", "'", "b", "+", "1", "'", ";">>,
          <<"p", "r", "i", "n", "t", "(", "'", "a", "b">>,
          <<"\"", "a", "b", "\"", ";">>,
          <<"\"", "a", "+", "1">>}

InterpreterIdle ==
    /\ program = NullNode
    /\ variables = NewInterpreter.variables
    /\ user_functions = NewInterpreter.user_functions
    /\ out = NewInterpreter.out
    /\ status = "running"
    /\ error = "none"
    /\ statement = NullNode
    /\ trace = <<>>
    /\ thrown = NewInterpreter.thrown
    /\ steps = 0

InitLex ==
    /\ line \in LexInputs
    /\ i = 1
    /\ tokens = <<>>
    /\ phase = "lex"
    /\ InterpreterIdle

\* The body of `while (i < line.size())`.
LexerStep ==
    /\ phase = "lex"
    /\ i <= Len(line)
    /\ i' = LexerIteration(line, i, tokens).i
    /\ tokens' = LexerIteration(line, i, tokens).tokens
    /\ UNCHANGED <<line, phase, program, variables, user_functions, out, status,
                   error, statement, trace, thrown, steps>>

\* The loop ends and lexer() returns tokens.
LexerReturn ==
    /\ phase = "lex"
    /\ i > Len(line)
    /\ phase' = "lexed"
    /\ UNCHANGED <<line, i, tokens, program, variables, user_functions, out, status,
                   error, statement, trace, thrown, steps>>

NextLex == LexerStep \/ LexerReturn

SpecLex == InitLex /\ [][NextLex]_vars

(***************************************************************************)
(* main(): the content of the file goes through lexer, parse_program and   *)
(* execute_program.                                                         *)
(***************************************************************************)
BinaryOperatorChars == {"+", "-", "*", "/", "^"}

Operands == {<<"2", "3", "4">>, <<"8", "3", "2">>, <<"2", "3", "2">>}

\* The text `print(a op1 b op2 c);`
ChainSource(abc, op1, op2) ==
    KeywordWords["PRINT"]
    \o <<"(", abc[1], " ", op1, " ", abc[2], " ", op2, " ", abc[3], ")", ";">>

ChainSources ==
    {ChainSource(abc, op1, op2) :
        abc \in Operands, op1 \in BinaryOperatorChars, op2 \in BinaryOperatorChars}

ProgramSources ==
    {<<"v", "a", "r", " ", "x", " ", "=", " ", "2", " ", "+", " ", "3", " ",
      "*", " ", "4", ";", " ", "p", "r", "i", "n", "t", "(", "x", ")", ";">>,
     <<"p", "r", "i", "n", "t", "(", "y", ")", ";">>,
     <<"w", "h", "i", "l", "e", " ", "(", "x", ")", " ", "y", ";">>,
     <<"x", " ", "=", " ", ";">>,
     <<"x", " ", "=", " ", "1", " ", "=", " ", "2", ";">>,
     <<"f", "u", "n", "c", " ", "f", "(", "a", ")", " ", "{", " ", "r", "e",
      "t", " ", "a", " ", "*", " ", "2", ";", " ", "}", " ", "p", "r", "i",
      "n", "t", "(", "f", "(", "3", ")", " ", "+", " ", "1", ")", ";">>,
     <<"i", "f", " ", "(", "1", ")", " ", "t", "h", "e", "n", " ", "p", "r",
      "i", "n", "t", "(", "1", ")", ";", " ", "e", "l", "s", "e", " ", "p",
      "r", "i", "n", "t", "(", "0", ")", ";">>,
     <<"r", "e", "t", " ", "7", ";", " ", "p", "r", "i", "n", "t", "(", "1",
      ")", ";">>}

\* Programs with a statement that no `;` follows: at the end of the text
\* (first four and last) and before another statement.
UnterminatedSources ==
    {<<"v", "a", "r", " ", "x", " ", "=", " ", "1">>,
     <<"x", " ", "=", " ", "2">>,
     <<"p", "r", "i", "n", "t", "(", "1", ")">>,
     <<"r", "e", "t", " ", "3">>,
     <<"p", "r", "i", "n", "t", "(", "1", ")", " ", "p", "r", "i", "n", "t",
       "(", "2", ")", ";">>,
     <<"v", "a", "r", " ", "x", " ", "=", " ", "1", " ", "x", " ", "=", " ",
       "2", ";">>,
     <<"x", " ", "=", " ", "1", ";", " ", "p", "r", "i", "n", "t", "(", "x",
       ")">>}

\* The declarations of "Using ROOMs".
RoomSources ==
    {<<"v", "a", "r", " ", "a", "_", "R", "O", "O", "M", ";">>,
     <<"v", "a", "r", " ", "a", "_", "R", "O", "O", "M", ";", " ", "v", "a",
       "r", " ", "b", "_", "R", "O", "O", "M", " ", "=", " ", "a", "_", "R",
       "O", "O", "M", ";">>,
     <<"v", "a", "r", " ", "b", " ", "=", " ", "a", "_", "R", "O", "O", "M",
       ";">>}

\* Programs with `=` inside an expression, and the statement form `x = 5;`.
EqualsSources ==
    {<<"1", " ", "=", " ", "2", ";">>,
     <<"p", "r", "i", "n", "t", "(", "a", " ", "=", " ", "1", ")", ";">>,
     <<"v", "a", "r", " ", "a", " ", "=", " ", "1", ";", " ", "p", "r", "i",
       "n", "t", "(", "a", " ", "=", " ", "1", ")", ";">>,
     <<"i", "f", " ", "(", "0", ")", " ", "t", "h", "e", "n", " ", "p", "r",
       "i", "n", "t", "(", "1", " ", "=", " ", "2", ")", ";">>,
     <<"x", " ", "=", " ", "5", ";">>,
     <<"p", "r", "i", "n", "t", "(", "1", " ", "+", " ", "2", " ", "=", " ",
       "3", ")", ";">>}

\* Programs that end inside a construct, where the parser reads the
\* end-of-input SEMICOLON of current_token, and blocks and lists that close.
TruncatedSources ==
    {<<"p", "r", "i", "n", "t", "(", "1", ",">>,
     <<"f", "u", "n", "c", " ", "f", "(", "a", ",">>,
     <<"i", "f", " ", "(", "1", ")", " ", "t", "h", "e", "n">>,
     <<"{", " ", "x", " ", "=", " ", "1", ";">>,
     <<"p", "r", "i", "n", "t", "(", "1", " ", "+">>,
     <<"f", "u", "n", "c", " ", "f", "(", ")">>,
     <<"(", "1">>,
     <<"-">>,
     <<"r", "e", "t">>,
     <<"p", "r", "i", "n", "t", "(", "f", "(">>,
     <<"{", " ", ";", " ", "}">>,
     <<"f", "u", "n", "c", " ", "f", "(", "a", ",", " ", "b", ")", " ",
       "{", " ", "}">>}

Sources == ChainSources \cup ProgramSources \cup UnterminatedSources \cup RoomSources
           \cup EqualsSources \cup TruncatedSources

InitMain ==
    /\ line \in Sources
    /\ i = 1
    /\ tokens = <<>>
    /\ phase = "source"
    /\ InterpreterIdle

\* std::vector<Token> tokens = lexer(content);
Tokenize ==
    /\ phase = "source"
    /\ tokens' = lexer(line)
    /\ i' = Len(line) + 1
    /\ phase' = "tokens"
    /\ UNCHANGED <<line, program, variables, user_functions, out, status, error,
                   statement, trace, thrown, steps>>

\* The outcome r of parse_program as the next state: the tree, or the
\* std::runtime_error that main catches.
ParsedProgram(r) ==
    /\ phase' = IF r.ok THEN "parsed" ELSE "parse_error"
    /\ program' = IF r.ok THEN r.node ELSE NullNode
    /\ status' = IF r.ok THEN status ELSE "error"
    /\ error' = IF r.ok THEN error ELSE "ParseError"

\* Parser parser(tokens); auto program = parser.parse_program();
Parse ==
    /\ phase = "tokens"
    /\ ParsedProgram(parse_program(tokens))
    /\ UNCHANGED <<line, i, tokens, variables, user_functions, out, statement,
                   trace, thrown, steps>>

\* The Interpreter object T after execute_program, as the next state.
Ran(T) ==
    /\ variables' = T.variables
    /\ user_functions' = T.user_functions
    /\ out' = T.out
    /\ status' = T.status
    /\ error' = T.what
    /\ trace' = T.trace
    /\ thrown' = T.thrown

\* Interpreter interpreter; interpreter.execute_program(program.get());
Run ==
    /\ phase = "parsed"
    /\ Ran(execute_program(program))
    /\ phase' = "done"
    /\ UNCHANGED <<line, i, tokens, program, statement, steps>>

NextMain == Tokenize \/ Parse \/ Run

SpecParse == InitMain /\ [][NextMain]_vars

(***************************************************************************)
(* Properties of the parser, checked under SpecParse.                      *)
(***************************************************************************)
BinaryOperators == {"PLUS", "MINUS", "STAR", "SLASH", "CARET"}

\* The binding powers as documented: + - = 2, * / = 3, ^ = 4.
DocumentedPower(type) ==
    CASE type \in {"PLUS", "MINUS"} -> 2
      [] type \in {"STAR", "SLASH"} -> 3
      [] type = "CARET" -> 4

\* The token list is that of `print(a op1 b op2 c);`.
IsChain ==
    /\ Len(tokens) = 9
    /\ tokens[1].type = "PRINT" /\ tokens[2].type = "OPEN_PAREN"
    /\ tokens[3].type = "INT" /\ tokens[4].type \in BinaryOperators
    /\ tokens[5].type = "INT" /\ tokens[6].type \in BinaryOperators
    /\ tokens[7].type = "INT"
    /\ tokens[8].type = "CLOSE_PAREN" /\ tokens[9].type = "SEMICOLON"

Operand(k) == IntLiteral(stoi(tokens[k].value))

PrintProgram(expr) ==
    Program(<<ExpressionStatement(FunctionCall(tokens[1].value, <<expr>>))>>)

\* (a op1 b) op2 c
LeftTree ==
    BinaryExpression(BinaryExpression(Operand(3), tokens[4].type, Operand(5)),
                     tokens[6].type, Operand(7))

\* a op1 (b op2 c)
RightTree ==
    BinaryExpression(Operand(3), tokens[4].type,
                     BinaryExpression(Operand(5), tokens[6].type, Operand(7)))

\* C1: whenever op2 has a strictly higher binding power than op1, the chain
\* a op1 b op2 c is parsed as a op1 (b op2 c); and print(2 + 3 * 4) prints 14.
C1_Precedence ==
    /\ (phase \in {"parsed", "done"} /\ IsChain
        /\ DocumentedPower(tokens[6].type) > DocumentedPower(tokens[4].type))
       => program = PrintProgram(RightTree)
    /\ (phase = "done" /\ line = ChainSource(<<"2", "3", "4">>, "+", "*"))
       => out = <<(<<"1", "4">>)>>

\* C2: whenever op and op' have the same binding power, the chain
\* a op b op' c is parsed as the left-associative tree (a op b) op' c;
\* print(2 ^ 3 ^ 2) prints 64.000000 and print(8 - 3 - 2) prints 3.
C2_LeftAssociative ==
    /\ (phase \in {"parsed", "done"} /\ IsChain
        /\ DocumentedPower(tokens[6].type) = DocumentedPower(tokens[4].type))
       => program = PrintProgram(LeftTree)
    /\ (phase = "done" /\ line = ChainSource(<<"2", "3", "2">>, "^", "^"))
       => out = <<(<<"6", "4", ".", "0", "0", "0", "0", "0", "0">>)>>
    /\ (phase = "done" /\ line = ChainSource(<<"8", "3", "2">>, "-", "-"))
       => out = <<(<<"3">>)>>

\* `2 ^ 3 ^ 2` has been parsed, as (2 ^ 3) ^ 2, and run.
C2_Witness ==
    /\ phase = "done"
    /\ line = ChainSource(<<"2", "3", "2">>, "^", "^")
    /\ IsChain
    /\ program = PrintProgram(LeftTree)

(***************************************************************************)
(* Properties of the lexer, checked under SpecLex.                         *)
(***************************************************************************)
\* C7: each keyword standing alone yields exactly one token, of the
\* keyword's own kind.
C7_KeywordKinds ==
    phase = "lexed" =>
        \A kind \in DOMAIN KeywordWords :
            line = KeywordWords[kind] => tokens = <<Token(kind, line)>>

(***************************************************************************)
(* Properties of the interpreter, checked under Spec.  trace holds the     *)
(* events of the last top-level statement.                                 *)
(***************************************************************************)
Events(kind) == {k \in 1..Len(trace) : trace[k].e = kind}

\* C3: every user function call that returns, by ret or by the end of its
\* body, at any depth, leaves the environment exactly as it was just
\* before the call.
C3_EnvironmentRestored ==
    \A k \in Events("return") : trace[k].after = trace[k].before

\* A nested call has returned after its body assigned a different value to
\* a name that is bound in its caller.
C3_Witness ==
    \E k \in Events("return") :
        /\ trace[k].depth >= 2
        /\ \E j \in 1..(k - 1) :
              /\ trace[j].e = "assign"
              /\ trace[j].depth = trace[k].depth
              /\ trace[j].name \in DOMAIN trace[k].before
              /\ trace[j].stored # trace[k].before[trace[j].name]
              /\ trace[j].name \in DOMAIN trace[k].after

\* A read, inside a function body, of a name that is bound in the caller,
\* is not a parameter and was not declared or assigned by the body so far.
OuterRead(k) ==
    /\ trace[k].e = "read"
    /\ trace[k].depth >= 1
    /\ trace[k].in_caller
    /\ ~trace[k].is_parameter
    /\ ~trace[k].written

\* C4 (as claimed): a body sees only its parameters and what it declared;
\* reading a caller's variable inside the body fails with UndefinedVariable.
C4_OuterReadFails ==
    \A k \in 1..Len(trace) :
        OuterRead(k) => (~trace[k].found /\ status = "error"
                         /\ error = "UndefinedVariable")

\* C4 (amended): a body starts in the caller's environment overlaid with the
\* parameters bound to the arguments, and reading a caller's variable that
\* is not a parameter and was not written by the body yields the caller's
\* value.
C4_OuterReadSucceeds ==
    /\ \A k \in 1..Len(trace) :
          OuterRead(k) => (trace[k].found /\ trace[k].value = trace[k].caller_value)
    /\ \A k \in Events("call") :
          /\ DOMAIN trace[k].variables
               = DOMAIN trace[k].caller
                 \cup {trace[k].parameters[p] : p \in 1..Len(trace[k].parameters)}
          /\ \A p \in 1..Len(trace[k].parameters) :
                trace[k].variables[trace[k].parameters[p]] = trace[k].args[p]
          /\ \A n \in DOMAIN trace[k].caller :
                (\A p \in 1..Len(trace[k].parameters) : trace[k].parameters[p] # n)
                => trace[k].variables[n] = trace[k].caller[n]

\* A function body has read a variable of its caller.
C4_Witness ==
    \E k \in 1..Len(trace) : OuterRead(k) /\ trace[k].found /\ status = "running"

\* C5 (as claimed): an assignment to a name that is not bound fails and
\* creates no binding.
C5_UnboundAssignFails ==
    \A k \in Events("assign") :
        ~trace[k].bound_before => (trace[k].raised /\ ~trace[k].bound_after)

\* C5 (amended): an assignment whose value evaluates without error always
\* succeeds: it binds the target to the value, creating the binding when
\* the name was not bound, and changes no other binding.
C5_AssignBinds ==
    \A k \in Events("assign") :
        /\ ~trace[k].raised
        /\ trace[k].bound_after
        /\ trace[k].stored = trace[k].value
        /\ trace[k].others_kept

\* An assignment has created the binding of a name that was not bound.
C5_Witness ==
    \E k \in Events("assign") :
        ~trace[k].bound_before /\ trace[k].bound_after /\ status = "running"

\* C6: executing a WhileStatement raises no error for being a while; one
\* whose condition is the literal 0 runs no body and execution goes on.
C6_WhileExecutes ==
    statement.k = "WhileStatement" =>
        /\ error # "UnknownStatementType"
        /\ statement.condition = Num(0) => status = "running"

\* A numeric zero: Int 0 or Float 0.0.
ZeroNumber(v) ==
    \/ v.t = "Int" /\ v.int = 0
    \/ v.t = "Float" /\ v.n = 0 /\ v.d # 0

\* C8: a division of numbers by Int 0 or Float 0.0 raises DivisionByZero
\* and yields nothing; nothing executes after it in the statement, the run
\* is in error, and no step is taken from a run in error.
C8_DivisionByZero ==
    /\ [](\A k \in Events("divide") :
             ZeroNumber(trace[k].right) =>
                 /\ trace[k].raised
                 /\ trace[k].what = "DivisionByZero"
                 /\ k = Len(trace)
                 /\ status = "error"
                 /\ error = "DivisionByZero")
    /\ [][status # "error"]_vars

\* 5.0 / 0.0 has been evaluated in a block with a statement after it.
C8_Witness ==
    \E k \in Events("divide") :
        /\ trace[k].right.t = "Float"
        /\ ZeroNumber(trace[k].right)
        /\ statement.k = "BlockStatement"
        /\ Len(statement.statements) > 1

\* Truthiness as documented.
Truthy(v) ==
    CASE v.t = "Bool" -> v.bool
      [] v.t = "Int" -> v.int # 0
      [] v.t = "Float" -> ~(v.n = 0 /\ v.d # 0)
      [] v.t = "Text" -> Len(v.text) > 0
      [] v.t = "Array" -> Len(v.elements) > 0

ExpectedBranch(event) ==
    IF Truthy(event.condition) THEN "then"
    ELSE IF event.has_else THEN "else"
    ELSE "none"

PrintsExecuted ==
    Cardinality({j \in Events("statement") : trace[j].k = "ExpressionStatement"})

\* C9: an if takes its then-branch exactly when the condition is truthy,
\* else its else-branch if it has one, else nothing; for the top-level ifs
\* (then prints 1, else prints 0) exactly the chosen branch has run.
C9_IfTruthiness ==
    /\ \A k \in Events("if") : trace[k].branch = ExpectedBranch(trace[k])
    /\ (statement \in IfStatements /\ status = "running") =>
          \A k \in Events("if") :
              /\ PrintsExecuted = IF ExpectedBranch(trace[k]) = "none" THEN 0 ELSE 1
              /\ ExpectedBranch(trace[k]) = "then"
                 => (out # <<>> /\ out[Len(out)] = <<"1">>)
              /\ ExpectedBranch(trace[k]) = "else"
                 => (out # <<>> /\ out[Len(out)] = <<"0">>)

\* `if ([0]) then print(1); else print(0);` has printed 1.
C9_Witness ==
    /\ statement \in IfStatements
    /\ status = "running"
    /\ \E k \in Events("if") :
          /\ trace[k].condition.t = "Array"
          /\ Len(trace[k].condition.elements) = 1
          /\ trace[k].branch = "then"
    /\ out # <<>> /\ out[Len(out)] = <<"1">>

\* C10: a call with a number of arguments different from the number of
\* parameters raises ArityMismatch, nothing executes after the test, and
\* the environment stays as it was at the call; a body only ever starts
\* with as many arguments as parameters.
C10_ArityMismatch ==
    /\ \A k \in Events("arity") :
          /\ trace[k].nargs # trace[k].nparams
          /\ k = Len(trace)
          /\ status = "error"
          /\ error = "ArityMismatch"
          /\ variables = trace[k].variables
    /\ \A k \in Events("call") : Len(trace[k].args) = Len(trace[k].parameters)

\* A call with a wrong number of arguments was made where variables exist.
C10_Witness ==
    \E k \in Events("arity") :
        /\ trace[k].variables # EmptyMap
        /\ trace[k].nargs # trace[k].nparams
        /\ status = "error"

(***************************************************************************)
(* Properties of ROOMs, checked under SpecRoom.                            *)
(***************************************************************************)
\* The bounds of frag(array, start, end) are Ints with
\* 0 <= start < end <= length(array).
FragOk(args) ==
    /\ args[2].t = "Int" /\ args[3].t = "Int"
    /\ 0 <= args[2].int /\ args[2].int < args[3].int
    /\ args[3].int <= Len(args[1].elements)

\* C11: frag(array, start, end) succeeds exactly when start and end are
\* Ints with 0 <= start < end <= length; it then yields an Array of length
\* end - start whose i-th element is array[start + i]; in every other case
\* it raises an error that ends the run; it never changes a variable.
C11_Frag ==
    \A k \in Events("frag") :
        (Len(trace[k].args) = 3 /\ trace[k].args[1].t = "Array") =>
            /\ trace[k].raised = ~FragOk(trace[k].args)
            /\ trace[k].after = trace[k].before
            /\ trace[k].raised => (status = "error" /\ k = Len(trace))
            /\ ~trace[k].raised =>
                  /\ trace[k].result.t = "Array"
                  /\ Len(trace[k].result.elements)
                       = trace[k].args[3].int - trace[k].args[2].int
                  /\ \A j \in 1..Len(trace[k].result.elements) :
                        trace[k].result.elements[j]
                          = trace[k].args[1].elements[trace[k].args[2].int + j]

\* frag(a, 1, 2) on a = [1, 2] has yielded [2], which was printed.
C11_Witness ==
    /\ status = "running"
    /\ \E k \in Events("frag") :
          /\ ~trace[k].raised
          /\ trace[k].args[2].int = 1
          /\ trace[k].result = ArrayV(<<IntV(2)>>)
    /\ out # <<>> /\ out[Len(out)] = <<"[", "2", "]">>

\* C12: an element assignment to one variable changes no other variable,
\* also when another variable holds a copy of the same array (made by a
\* declaration, an assignment or parameter passing); inside s(p), called
\* with a, the store p[0] = 7 leaves a[0] as it was: print(s(a)) prints
\* the old a[0] and then the copy with 7 in front, and a is unchanged.
C12_NoAliasing ==
    /\ \A k \in Events("store") :
          ~trace[k].raised =>
              \A n \in DOMAIN trace[k].before \ {trace[k].name} :
                  /\ n \in DOMAIN trace[k].after
                  /\ trace[k].after[n] = trace[k].before[n]
    /\ (statement = PrintOf(Call(ns, <<Var(na)>>)) /\ status = "running") =>
          /\ Len(out) >= 2
          /\ out[Len(out) - 1] = value_to_string(variables[na].elements[1])
          /\ out[Len(out)]
               = value_to_string([variables[na] EXCEPT !.elements[1] = IntV(7)])
          /\ variables[na].elements[1] # IntV(7)

\* An element of a variable was assigned while another variable held a
\* copy of the same array, and the two now differ.
C12_Witness ==
    \E k \in Events("store") :
        /\ ~trace[k].raised
        /\ \E n \in DOMAIN trace[k].before \ {trace[k].name} :
              /\ trace[k].before[n] = trace[k].before[trace[k].name]
              /\ trace[k].after[n] # trace[k].after[trace[k].name]

(***************************************************************************)
(* Properties of statement termination and of ROOM declarations, checked   *)
(* under SpecParse.                                                        *)
(***************************************************************************)
\* The token sequence ends right after a statement that no SEMICOLON (and
\* no block end) follows.
UnterminatedLast ==
    /\ tokens # <<>>
    /\ tokens[Len(tokens)].type \notin {"SEMICOLON", "CLOSE_CURLY"}

\* A value is directly followed by the first token of a statement: the
\* expression that ends a statement is followed by no SEMICOLON.
UnterminatedInside ==
    \E k \in 1..(Len(tokens) - 1) :
        /\ tokens[k].type \in {"INT", "IDENTIFIER"}
        /\ tokens[k + 1].type \in {"VAR", "RET", "PRINT", "IDENTIFIER"}

\* C13: every token sequence in which a variable declaration, assignment,
\* expression statement or ret is not followed by SEMICOLON fails with
\* ParseError, also when the sequence ends right after the statement.
C13_SemicolonRequired ==
    (phase \in {"parsed", "parse_error"} /\ (UnterminatedLast \/ UnterminatedInside))
        => (phase = "parse_error" /\ error = "ParseError")

\* The positions of the names declared as `var name_ROOM`.
RoomDeclared ==
    {k \in 2..Len(tokens) :
        tokens[k - 1].type = "VAR" /\ tokens[k].type = "ROOM_IDENTIFIER"}

\* C19: `var name_ROOM;` parses and binds name_ROOM to an empty ROOM, and
\* `var name2_ROOM = name_ROOM;` binds name2_ROOM to a copy of it.
C19_RoomDeclaration ==
    (RoomDeclared # {} /\ phase \notin {"source", "tokens"}) =>
        /\ phase # "parse_error"
        /\ phase = "done" =>
              \A k \in RoomDeclared :
                  /\ tokens[k].value \in DOMAIN variables
                  /\ variables[tokens[k].value].t = "Array"
                  /\ variables[tokens[k].value].elements = <<>>

(***************************************************************************)
(* Element access and element assignment, checked under SpecRoom.          *)
(***************************************************************************)
\* The index value v is numeric (an Int or a Float) and 0 <= v < length.
IndexInRange(v, length) ==
    \/ v.t = "Int" /\ 0 <= v.int /\ v.int < length
    \/ v.t = "Float" /\ v.d > 0 /\ 0 <= v.n /\ v.n < length * v.d

\* The access or assignment recorded as ev is one the claim lets succeed.
AccessAllowed(ev) ==
    /\ ev.bound
    /\ ev.room.t = "Array"
    /\ ev.indexed
    /\ IndexInRange(ev.index_value, Len(ev.room.elements))

\* The error the claim gives the failing access or assignment ev.
ExpectedAccessError(ev) ==
    IF ~ev.bound THEN {"UndefinedVariable"}
    ELSE IF ev.room.t # "Array" THEN {"NotAnArray"}
    ELSE IF ev.index_value.t \notin {"Int", "Float"} THEN {"TypeMismatch"}
    ELSE {"IndexOutOfBounds"}

\* C20: n[i] and n[i] = v succeed exactly when n is bound to an Array, i is
\* numeric and 0 <= i < length; otherwise they fail with UndefinedVariable,
\* NotAnArray, a type error or IndexOutOfBounds; a failing assignment
\* leaves the environment unchanged and a successful one changes exactly
\* element i of n.
C20_ElementAccess ==
    \A k \in Events("access") \cup Events("store") :
        /\ trace[k].raised = ~AccessAllowed(trace[k])
        /\ trace[k].raised =>
              /\ trace[k].what \in ExpectedAccessError(trace[k])
              /\ trace[k].after = trace[k].before
        /\ (~trace[k].raised /\ trace[k].e = "access") =>
              trace[k].result
                = trace[k].room.elements[ToInt(trace[k].index_value) + 1]
        /\ (~trace[k].raised /\ trace[k].e = "store") =>
              trace[k].after
                = [trace[k].before EXCEPT
                     ![trace[k].name].elements[ToInt(trace[k].index_value) + 1]
                        = trace[k].new_value]

(***************************************************************************)
(* Operand kinds, function resolution, ret and declarations, checked       *)
(* under Spec.                                                             *)
(***************************************************************************)
NumberKinds == {"Int", "Float"}

\* C17: the binary operators + - * / accept only Int and Float operands;
\* with a Bool, Text or Array operand the evaluation fails with
\* InvalidOperandType.
C17_OperandTypes ==
    /\ \A k \in Events("arith") :
          /\ trace[k].raised
               = ~(trace[k].left.t \in NumberKinds /\ trace[k].right.t \in NumberKinds)
          /\ trace[k].raised => trace[k].what = "InvalidOperandType"
    /\ \A k \in Events("divide") :
          trace[k].left.t \in NumberKinds /\ trace[k].right.t \in NumberKinds

\* The events that start the execution of a user function.
UserCallEvents == {"call", "arity"}

\* C14: a call resolves its name in the user function table first and in
\* the builtin table second; a name in neither is an UnknownFunction error
\* that ends the run. A user function named len hides the builtin len.
C14_Resolution ==
    /\ \A k \in Events("resolve") :
          /\ trace[k].user =>
                /\ trace[k].to = "user_functions"
                /\ k < Len(trace) /\ trace[k + 1].e \in UserCallEvents
          /\ ~trace[k].user =>
                /\ trace[k].to = "function_registry"
                /\ k < Len(trace) => trace[k + 1].e \notin UserCallEvents
          /\ (~trace[k].user /\ ~trace[k].builtin) =>
                (status = "error" /\ error = "UnknownFunction" /\ k = Len(trace))
          /\ (~trace[k].user /\ trace[k].builtin) => error # "UnknownFunction"
    /\ (statement = PrintOf(Call(w_len, <<StringLiteral(<<"a", "b">>)>>))
          /\ status = "running") =>
          /\ out # <<>>
          /\ out[Len(out)] = IF w_len \in DOMAIN user_functions THEN <<"7">> ELSE <<"2">>

\* print(len("ab")) has printed 7: the call went to the user function len,
\* although a builtin len exists.
C14_Witness ==
    /\ statement = PrintOf(Call(w_len, <<StringLiteral(<<"a", "b">>)>>))
    /\ status = "running"
    /\ out # <<>> /\ out[Len(out)] = <<"7">>
    /\ \E k \in Events("resolve") :
          trace[k].user /\ trace[k].builtin /\ trace[k].to = "user_functions"

\* The lines of the output that announce the return value of the program.
AnnouncementLines ==
    {k \in 1..Len(out) :
        /\ Len(out[k]) >= Len(Announcement)
        /\ SubSeq(out[k], 1, Len(Announcement)) = Announcement}

\* The ret statements executed outside every function call whose value was
\* evaluated.
TopLevelRets == {k \in Events("ret") : trace[k].depth = 0}

\* C15: a ret executed outside every function halts the program: nothing
\* executes after it, not in its statement and not after it; the output
\* gets exactly one announcement line, the last one, with the rendering of
\* the value, which is Int 0 when ret has no expression. A run in which no
\* such ret executed has no announcement line.
C15_TopLevelReturn ==
    /\ [](/\ \A k \in TopLevelRets :
                /\ k = Len(trace)
                /\ status = "returned"
                /\ ~trace[k].has_value => trace[k].value = IntV(0)
                /\ out # <<>>
                /\ out[Len(out)] = Announcement \o value_to_string(trace[k].value)
          /\ status = "returned" => (TopLevelRets # {} /\ AnnouncementLines = {Len(out)})
          /\ status # "returned" => AnnouncementLines = {})
    /\ [][status # "returned"]_vars

\* `ret;` has ended a run that had printed before: the announcement of 0 is
\* the last of at least two lines.
C15_Witness ==
    /\ status = "returned"
    /\ statement = ReturnStatement(NullNode)
    /\ Len(out) >= 2
    /\ out[Len(out)] = Announcement \o <<"0">>

\* C16: a ret inside a function body ends only the innermost call: the
\* rest of the body is skipped, the call yields the value of the ret, and
\* the caller goes on; a body that runs to its end yields Int 0.
C16_FunctionReturn ==
    /\ \A k \in Events("ret") :
          trace[k].depth > 0 =>
              /\ k < Len(trace)
              /\ trace[k + 1].e = "return"
              /\ trace[k + 1].via = "ret"
              /\ trace[k + 1].depth = trace[k].depth
              /\ trace[k + 1].value = trace[k].value
    /\ \A k \in Events("return") :
          /\ trace[k].via = "ret" => (k > 1 /\ trace[k - 1].e = "ret")
          /\ trace[k].via = "end" =>
                /\ trace[k].value = IntV(0)
                /\ trace[k - 1].e # "ret"
    /\ status = "returned" => TopLevelRets # {}
    /\ (statement = PrintOf(Call(nf, <<Num(1)>>)) /\ status = "running") =>
          (out # <<>> /\ out[Len(out)] = <<"7">>)

\* x = h(1) has run: the inner call h(0) ran to the end of its body and
\* yielded 0, the outer call returned 1 by ret, and the caller stored it.
C16_Witness ==
    /\ statement = AssignmentStatement(nx, Call(nh, <<Num(1)>>))
    /\ status = "running"
    /\ nx \in DOMAIN variables /\ variables[nx] = IntV(1)
    /\ \E k \in Events("return") : trace[k].via = "end" /\ trace[k].depth = 2
    /\ \E k \in Events("return") : trace[k].via = "ret" /\ trace[k].depth = 1

ValueKinds == {"Int", "Float", "Text", "Bool", "Array"}

\* C18: a variable declaration without initializer binds the name to
\* Int 0, one with an initializer binds it to the initializer's value; the
\* binding replaces an earlier one of the name and no other binding
\* changes; no bound name is without a value.
C18_Declaration ==
    /\ \A k \in Events("declare") :
          /\ ~trace[k].has_init => trace[k].value = IntV(0)
          /\ trace[k].name \in DOMAIN trace[k].after
          /\ trace[k].after[trace[k].name] = trace[k].value
          /\ \A n \in (DOMAIN trace[k].before \cup DOMAIN trace[k].after)
                        \ {trace[k].name} :
                /\ n \in DOMAIN trace[k].before
                /\ n \in DOMAIN trace[k].after
                /\ trace[k].after[n] = trace[k].before[n]
    /\ (statement = VariableDeclaration(nx, NullNode) /\ status = "running") =>
          (nx \in DOMAIN variables /\ variables[nx] = IntV(0))
    /\ (statement = VariableDeclaration(nx, Num(5)) /\ status = "running") =>
          (nx \in DOMAIN variables /\ variables[nx] = IntV(5))
    /\ \A n \in DOMAIN variables : variables[n].t \in ValueKinds

\* `var x;` has replaced the value 5 of x by Int 0 while y kept its value.
C18_Witness ==
    /\ statement = VariableDeclaration(nx, NullNode)
    /\ status = "running"
    /\ ny \in DOMAIN variables
    /\ \E k \in Events("declare") :
          /\ trace[k].name = nx
          /\ nx \in DOMAIN trace[k].before
          /\ trace[k].before[nx] = IntV(5)
          /\ trace[k].after[nx] = IntV(0)

(***************************************************************************)
(* Char literals, checked under SpecLex.                                   *)
(***************************************************************************)
\* The positions of a single quote that no earlier quote of either kind
\* precedes: the start of the first char literal of the text.
CharStarts ==
    {j \in 1..Len(line) :
        line[j] = "'" /\ \A m \in 1..(j - 1) : line[m] \notin {"'", "\""}}

\* The last position of the span that starts with the quote at q: the next
\* single quote, or the end of the text.
CharEnd(q) ==
    IF \E m \in (q + 1)..Len(line) : line[m] = "'"
    THEN CHOOSE m \in (q + 1)..Len(line) :
            line[m] = "'" /\ \A n \in (q + 1)..(m - 1) : line[n] # "'"
    ELSE Len(line)

\* C21: a char literal is scanned like a string literal: the characters
\* from a single quote up to and including the next one (or to the end of
\* the text) give exactly one CHAR token whose text is that span, between
\* the tokens of the text before it and those of the text after it.
C21_CharLiteral ==
    (phase = "lexed" /\ CharStarts # {}) =>
        \A q \in CharStarts :
            tokens = lexer(SubSeq(line, 1, q - 1))
                     \o <<Token("CHAR", SubSeq(line, q, CharEnd(q)))>>
                     \o lexer(SubSeq(line, CharEnd(q) + 1, Len(line)))

(***************************************************************************)
(* Errors, assignment and the function table, checked under Spec.          *)
(***************************************************************************)
\* The output out1 starts with the output out0.
IsPrefix(out0, out1) ==
    Len(out0) <= Len(out1) /\ SubSeq(out1, 1, Len(out0)) = out0

\* The events that record the throw itself, written right after it.
ThrowRecords == {"divide", "frag"}

\* C22: once a runtime error is raised, at any call depth, no further
\* statement is executed and nothing is appended to the output: the run
\* is in error with the output as it was at the throw, nothing is recorded
\* after the throw but the throw itself, and no step follows; every step
\* keeps the earlier output as a prefix of the new one.
C22_ErrorAborts ==
    /\ [](/\ thrown.is =>
                /\ status = "error"
                /\ out = thrown.out
                /\ \A k \in (thrown.events + 1)..Len(trace) :
                      trace[k].e \in ThrowRecords /\ trace[k].raised
          /\ (status = "error" /\ error # "ParseError") => thrown.is)
    /\ [][status # "error" /\ IsPrefix(out, out')]_vars

\* An error was raised inside a function body after the program had
\* printed: the printed lines are still the output.
C22_Witness ==
    /\ thrown.is
    /\ status = "error"
    /\ out # <<>>
    /\ Events("call") # {}
    /\ \E k \in Events("statement") : trace[k].depth > 0

(***************************************************************************)
(* `=` inside an expression, checked under SpecParse.                      *)
(***************************************************************************)
\* The kinds of token after which a statement starts.
BeforeStatement == {"SEMICOLON", "OPEN_CURLY", "CLOSE_CURLY", "THEN", "ELSE", "VAR"}

\* The positions of the EQUALS tokens in expression position: those that
\* do not follow the identifier a statement or a declaration starts with.
ExpressionEquals ==
    {k \in 1..Len(tokens) :
        /\ tokens[k].type = "EQUALS"
        /\ ~(/\ k >= 2
             /\ tokens[k - 1].type = "IDENTIFIER"
             /\ (k = 2 \/ tokens[k - 2].type \in BeforeStatement))}

RECURSIVE HasEquals(_)
\* The tree has a BinaryExpression whose operator is EQUALS.
HasEquals(node) ==
    CASE node.k = "BinaryExpression" ->
           \/ node.operator_type = "EQUALS"
           \/ HasEquals(node.left)
           \/ HasEquals(node.right)
      [] node.k = "UnaryExpression" -> HasEquals(node.operand)
      [] node.k = "ParenthesizedExpression" -> HasEquals(node.expression)
      [] node.k = "FunctionCall" ->
           \E a \in 1..Len(node.arguments) : HasEquals(node.arguments[a])
      [] node.k = "ExpressionStatement" -> HasEquals(node.expression)
      [] node.k = "VariableDeclaration" -> HasEquals(node.initializer)
      [] node.k \in {"AssignmentStatement", "ReturnStatement"} -> HasEquals(node.value)
      [] node.k = "IfStatement" ->
           \/ HasEquals(node.condition)
           \/ HasEquals(node.then_statement)
           \/ HasEquals(node.else_statement)
      [] node.k = "WhileStatement" -> HasEquals(node.condition) \/ HasEquals(node.body)
      [] node.k = "FunctionDeclaration" -> HasEquals(node.body)
      [] node.k \in {"BlockStatement", "Program"} ->
           \E a \in 1..Len(node.statements) : HasEquals(node.statements[a])
      [] OTHER -> FALSE

\* The tokens are those of `a = b;` with a of kind first and b an INT.
IsEqualsStatement(first) ==
    /\ Len(tokens) = 4
    /\ tokens[1].type = first /\ tokens[2].type = "EQUALS"
    /\ tokens[3].type = "INT" /\ tokens[4].type = "SEMICOLON"

\* C23 as stated: a token sequence with `=` in expression position fails
\* with a ParseError and yields no Program.
C23_EqualsRejected ==
    (phase \notin {"source", "tokens"} /\ ExpressionEquals # {}) =>
        (phase = "parse_error" /\ error = "ParseError" /\ program = NullNode)

\* C23, amended: the parser accepts `=` in expression position and builds a
\* BinaryExpression whose operator is EQUALS (`1 = 2;` is an expression
\* statement); the expression is rejected when it is evaluated, with the
\* runtime error AssignmentInExpression that ends the run; the statement
\* form `identifier = expr;` is an AssignmentStatement.
C23_EqualsEvaluated ==
    /\ line \in EqualsSources => phase # "parse_error"
    /\ (phase \in {"parsed", "done"} /\ ExpressionEquals # {}) => HasEquals(program)
    /\ (phase \in {"parsed", "done"} /\ IsEqualsStatement("INT")) =>
          program = Program(<<ExpressionStatement(
                                  BinaryExpression(Operand(1), "EQUALS", Operand(3)))>>)
    /\ (phase \in {"parsed", "done"} /\ IsEqualsStatement("IDENTIFIER")) =>
          program = Program(<<AssignmentStatement(tokens[1].value, Operand(3))>>)
    /\ \A k \in Events("equals") :
          /\ k = Len(trace)
          /\ status = "error"
          /\ error = "AssignmentInExpression"

\* `1 = 2;` was parsed and run: the run ended with AssignmentInExpression
\* when the expression was evaluated.
C23_Witness ==
    /\ phase = "done"
    /\ IsEqualsStatement("INT")
    /\ HasEquals(program)
    /\ error = "AssignmentInExpression"
    /\ Events("equals") # {}

(***************************************************************************)
(* Assignment round trip, checked under Spec.                              *)
(***************************************************************************)
\* x = x + 1;
Increment == AssignmentStatement(nx, BinaryExpression(Var(nx), "PLUS", Num(1)))

\* The top-level assignments of the programs.
TopLevelAssignments ==
    {Increment, AssignmentStatement(ny, Num(2)),
     AssignmentStatement(nx, Call(nh, <<Num(1)>>))}

\* C24: after `x = e` has executed, x holds the value e had in the
\* environment just before the assignment (x = x + 1 adds 1 to the old x),
\* every other binding is as before, and the next statement that reads
\* a variable first reads the value the earlier statements left in it.
C24_RoundTrip ==
    [][steps' # steps =>
       /\ (statement' = Increment /\ status' = "running") =>
             /\ nx \in DOMAIN variables
             /\ variables'[nx] = Arith("PLUS", variables[nx], IntV(1))
       /\ (statement' \in TopLevelAssignments /\ status' = "running") =>
             /\ statement'.variable_name \in DOMAIN variables'
             /\ \E k \in 1..Len(trace') :
                   /\ trace'[k].e = "assign"
                   /\ trace'[k].depth = 0
                   /\ trace'[k].name = statement'.variable_name
                   /\ variables'[statement'.variable_name] = trace'[k].value
             /\ \A n \in (DOMAIN variables \cup DOMAIN variables')
                           \ {statement'.variable_name} :
                   /\ n \in DOMAIN variables
                   /\ n \in DOMAIN variables'
                   /\ variables'[n] = variables[n]
       /\ \A k \in 1..Len(trace') :
             (/\ trace'[k].e = "read"
              /\ trace'[k].depth = 0
              /\ \A j \in 1..(k - 1) : trace'[j].e \in {"statement", "read", "arith"})
                => (/\ trace'[k].found = (trace'[k].name \in DOMAIN variables)
                    /\ trace'[k].found => trace'[k].value = variables[trace'[k].name])
      ]_vars

\* `var x = 5;` and then `x = x + 1;` have run with another variable bound:
\* x is Int 6.
C24_Witness ==
    /\ statement = Increment
    /\ status = "running"
    /\ variables[nx] = IntV(6)
    /\ ny \in DOMAIN variables

\* The messages of the std::runtime_error the parser raises.
ParseErrors ==
    {"Expected token type", "Unexpected token in primary expression",
     "Expected identifier after 'var'", "Expected function name after 'func'",
     "Expected parameter name"}

\* r is what a parse function started at `pos` ended with: an error raised
\* at a position not before pos, or a tree with at least one token consumed;
\* the position stays within the tokens and the place of the sentinel.
Advances(r, pos) ==
    /\ r.pos >= pos /\ r.pos <= Len(tokens) + 1
    /\ IF r.ok THEN r.pos > pos ELSE r.what \in ParseErrors

\* C25: parse_program ends on every token sequence, with a Program and all
\* tokens consumed or with a ParseError; advance never moves pos back or past
\* the place after the last token; and one iteration of each loop, started at
\* any position up to the end-of-input sentinel, consumes at least one token
\* or raises an error: the statement of parse_program and of
\* parse_block_statement, the operator and right operand of parse_expression,
\* the argument of an argument list and the name of a parameter list.
C25_ParserProgress ==
    /\ IF parse_program(tokens).ok
       THEN parse_program(tokens).node.k = "Program"
            /\ parse_program(tokens).pos = Len(tokens) + 1
       ELSE Advances(parse_program(tokens), 1)
    /\ (phase \in {"parsed", "parse_error", "done"})
          => (phase = "parse_error") = ~parse_program(tokens).ok
    /\ \A pos \in 1..(Len(tokens) + 1) :
          /\ advance(tokens, pos) >= pos /\ advance(tokens, pos) <= Len(tokens) + 1
          /\ pos <= Len(tokens) => advance(tokens, pos) = pos + 1
          /\ Advances(parse_statement(tokens, pos), pos)
          /\ Advances(parse_primary(tokens, pos), pos)
          /\ Advances(ParseParameters(tokens, pos, <<>>), pos)
          /\ \A min_precedence \in 0..5 :
                /\ Advances(parse_expression(tokens, pos, min_precedence), pos)
                /\ pos <= Len(tokens) =>
                     Advances(parse_expression(tokens, advance(tokens, pos),
                                               min_precedence), pos)

\* A parse that raised its error with the sentinel as the current token,
\* after the comma of an argument list.
C25_Witness ==
    /\ phase = "parse_error"
    /\ Len(tokens) > 0
    /\ tokens[Len(tokens)].type = "COMMA"
    /\ tokens[1].type = "PRINT"
    /\ parse_program(tokens).pos = Len(tokens) + 1

\* C26: the function table only grows and an entry never changes: a
\* FunctionDeclaration of a name that has a function leaves the table as it
\* is, one of a new name adds its parameters and body, and a later call
\* f() runs the definition the table had first: with `func f(x) ...` there it
\* fails on the argument count, with `func f() ret 9;` there it prints 9.
C26_FirstDefinitionStays ==
    [][/\ \A n \in DOMAIN user_functions :
             n \in DOMAIN user_functions' /\ user_functions'[n] = user_functions[n]
       /\ (steps' # steps /\ statement'.k = "FunctionDeclaration") =>
             /\ status' = "running"
             /\ user_functions' =
                  IF statement'.name \in DOMAIN user_functions THEN user_functions
                  ELSE Put(user_functions, statement'.name,
                           UserFunction(statement'.parameters, statement'.body))
       /\ (steps' # steps /\ statement' = PrintOf(Call(nf, <<>>))
            /\ nf \in DOMAIN user_functions) =>
             IF user_functions[nf] = UserFunction(Redeclaration.parameters,
                                                  Redeclaration.body)
             THEN status' = "running" /\ out' = Append(out, value_to_string(IntV(9)))
             ELSE status' = "error" /\ error' = "ArityMismatch" /\ out' = out
      ]_vars

\* `func f() ret 9;` was executed when f had the function of `func f(x) ...`.
C26_Witness ==
    /\ statement = Redeclaration
    /\ status = "running"
    /\ nf \in DOMAIN user_functions
    /\ user_functions[nf].parameters = <<nx>>

\* C27: a FunctionDeclaration executed inside a function body is in the
\* function table after the statement that made the call, whatever became of
\* the call; in `print(k() + m());` the caller of k calls m after k has
\* returned, and a later top-level `print(m());` calls it too, while the
\* variables are as before the call.
C27_InnerFunctionStays ==
    [][steps' # steps =>
         /\ \A j \in 1..Len(trace') :
               (trace'[j].e = "statement" /\ trace'[j].k = "FunctionDeclaration"
                /\ trace'[j].depth > 0)
                 => trace'[j].name \in DOMAIN user_functions'
         /\ (statement' = PrintOf(BinaryExpression(Call(nk, <<>>), "PLUS", Call(nm, <<>>)))
             /\ nk \in DOMAIN user_functions) =>
               /\ status' = "running"
               /\ out' = Append(out, value_to_string(IntV(8)))
               /\ variables' = variables
               /\ user_functions' = Put(user_functions, nm,
                                        UserFunction(Inner.parameters, Inner.body))
         /\ (statement' = PrintOf(Call(nm, <<>>))) =>
               IF nm \in DOMAIN user_functions
               THEN status' = "running" /\ out' = Append(out, value_to_string(IntV(4)))
               ELSE status' = "error"
      ]_vars

\* `print(m());` ran at the top level after a call of k had declared m.
C27_Witness ==
    /\ statement = PrintOf(Call(nm, <<>>))
    /\ status = "running"
    /\ nk \in DOMAIN user_functions
    /\ out # <<>> /\ out[Len(out)] = value_to_string(IntV(4))

====
